---- MODULE Spec2Model ----
(***************************************************************************)
(* Nina's Beats: the cue map (src/src/lyric_sync.py) and the scene         *)
(* Director (src/src/director.py), with the frame composition of           *)
(* src/src/main.py.                                                        *)
(*                                                                         *)
(* Times are whole numbers of seconds (the code only compares them).       *)
(* Python's None is the string "None"; an Optional[Scene] that is None is  *)
(* the record NoInstance.                                                  *)
(***************************************************************************)
EXTENDS Integers, Sequences, FiniteSets, TLC

\* ------------------------------------------------------------------ bounds
\* Largest cue time and query time explored.
MaxTime == 2
\* Longest cue list explored.
MaxLen == 2

Times == 0..MaxTime

None == "None"

\* ------------------------------------------------------- lyric_sync.py
\* Values of LyricEntry.scene: absent (None), the empty string, or a name.
CueScenes == {None, "", "intro", "starfield"}

\* LyricEntry (time >= 0 is enforced by __post_init__).
LyricEntry(time, text, scene) == [time |-> time, text |-> text, scene |-> scene]

\* Python truthiness of Optional[str]: None and "" are false.
Truthy(scene) == scene # None /\ scene # ""

\* sorted(entries, key=lambda e: e.time) is stable: an entry goes after every
\* entry already placed whose time is <= its own.
RECURSIVE InsertByTime(_, _)
InsertByTime(sorted_es, e) ==
    IF sorted_es = <<>> THEN <<e>>
    ELSE IF sorted_es[Len(sorted_es)].time <= e.time THEN Append(sorted_es, e)
    ELSE Append(InsertByTime(SubSeq(sorted_es, 1, Len(sorted_es) - 1), e),
                sorted_es[Len(sorted_es)])

RECURSIVE SortedByTime(_)
SortedByTime(es) ==
    IF es = <<>> THEN <<>>
    ELSE InsertByTime(SortedByTime(SubSeq(es, 1, Len(es) - 1)), es[Len(es)])

\* The loop of get_lyric_at, from position i (1-based): the first entry whose
\* time exceeds the query decides; the result is a position in entries, 0 for
\* None.
RECURSIVE lyric_scan(_, _, _)
lyric_scan(es, time, i) ==
    IF i > Len(es) THEN (IF Len(es) > 0 THEN Len(es) ELSE 0)
    ELSE IF es[i].time > time THEN (IF i > 1 THEN i - 1 ELSE 0)
    ELSE lyric_scan(es, time, i + 1)

\* The same loop with the "if i > 0" guard lost: entries[i - 1] with i = 0 is
\* Python's entries[-1], the last entry.
RECURSIVE lyric_scan_unguarded(_, _, _)
lyric_scan_unguarded(es, time, i) ==
    IF i > Len(es) THEN (IF Len(es) > 0 THEN Len(es) ELSE 0)
    ELSE IF es[i].time > time THEN (IF i > 1 THEN i - 1 ELSE Len(es))
    ELSE lyric_scan_unguarded(es, time, i + 1)

get_lyric_at_unguarded(es, time) == lyric_scan_unguarded(es, time, 1)

\* The same loop with ">=" for ">".
RECURSIVE lyric_scan_ge(_, _, _)
lyric_scan_ge(es, time, i) ==
    IF i > Len(es) THEN (IF Len(es) > 0 THEN Len(es) ELSE 0)
    ELSE IF es[i].time >= time THEN (IF i > 1 THEN i - 1 ELSE 0)
    ELSE lyric_scan_ge(es, time, i + 1)

get_lyric_at_ge(es, time) == lyric_scan_ge(es, time, 1)

\* LyricMap.get_lyric_at(time): position of the returned entry, 0 for None.
get_lyric_at(es, time) == lyric_scan(es, time, 1)

\* The loop of get_scene_trigger over reversed(entries), from position i
\* downwards: the first entry with a truthy scene and time <= the query; 0 when
\* the loop runs out.
RECURSIVE trigger_scan(_, _, _)
trigger_scan(es, time, i) ==
    IF i = 0 THEN 0
    ELSE IF Truthy(es[i].scene) /\ es[i].time <= time THEN i
    ELSE trigger_scan(es, time, i - 1)

\* The loop run over entries instead of reversed(entries).
RECURSIVE trigger_scan_forward(_, _, _)
trigger_scan_forward(es, time, i) ==
    IF i > Len(es) THEN 0
    ELSE IF Truthy(es[i].scene) /\ es[i].time <= time THEN i
    ELSE trigger_scan_forward(es, time, i + 1)

\* get_scene_trigger with the loop running oldest first.
get_scene_trigger_forward(es, last, time) ==
    LET i == trigger_scan_forward(es, time, 1) IN
    IF i > 0 /\ es[i].time > last
    THEN [ret |-> es[i].scene, last |-> es[i].time]
    ELSE [ret |-> None, last |-> last]

\* get_scene_trigger with ">=" for ">" in the test against the cursor.
get_scene_trigger_refire(es, last, time) ==
    LET i == trigger_scan(es, time, Len(es)) IN
    IF i > 0 /\ es[i].time >= last
    THEN [ret |-> es[i].scene, last |-> es[i].time]
    ELSE [ret |-> None, last |-> last]

\* get_scene_trigger that returns the name without moving the cursor.
get_scene_trigger_nocursor(es, last, time) ==
    LET i == trigger_scan(es, time, Len(es)) IN
    IF i > 0 /\ es[i].time > last
    THEN [ret |-> es[i].scene, last |-> last]
    ELSE [ret |-> None, last |-> last]

\* get_scene_trigger with "!=" for ">" in the test against the cursor.
get_scene_trigger_rewind(es, last, time) ==
    LET i == trigger_scan(es, time, Len(es)) IN
    IF i > 0 /\ es[i].time # last
    THEN [ret |-> es[i].scene, last |-> es[i].time]
    ELSE [ret |-> None, last |-> last]

\* LyricMap.get_scene_trigger(time) with _last_triggered_scene_time = last:
\* the value returned and the cursor afterwards.
get_scene_trigger(es, last, time) ==
    LET i == trigger_scan(es, time, Len(es)) IN
    IF i > 0 /\ es[i].time > last
    THEN [ret |-> es[i].scene, last |-> es[i].time]
    ELSE [ret |-> None, last |-> last]

\* ----------------------------------------------------------- director.py
\* Names registered by main() that the model explores, and a name that is not
\* registered.
Registered == {"intro", "starfield", "finale"}

SceneNames == Registered \cup {"bogus"}

\* transition_alpha is held as the number of additions of
\* FRAME_TIME / FADE_DURATION made since it was last 0.0. In IEEE doubles 15
\* such additions give 0.9999999999999999 and the 16th gives
\* 1.0666666666666667: the test "transition_alpha >= 1.0" first succeeds at 16.
StepsToOne == 16

\* dt values handed to update_scenes, in frames: 0, FRAME_TIME, and a dt that
\* brings alpha to 1.0 or beyond whatever it was.
Dts == {0, 1, StepsToOne}

\* An Optional[Scene] that is None.
NoInstance == [id |-> 0, name |-> None, arg |-> None]

\* SceneClass(context) / SceneClass(context, finale_message=...): the id is
\* the object's identity.
NewScene(id, name, ctor_arg) == [id |-> id, name |-> name, arg |-> ctor_arg]

\* A call of a scene method, as recorded in the log of the Director call that
\* made it. alpha is <<"1.0", 0>>, <<"alpha", n>> or <<"1.0-alpha", n>>.
SceneCall(method, scene, alpha) == [op |-> method, id |-> scene.id, alpha |-> alpha]

NoAlpha == <<"-", 0>>
FullAlpha == <<"1.0", 0>>
NewAlpha(n) == <<"alpha", n>>
OldAlpha(n) == IF n = 0 THEN FullAlpha ELSE <<"1.0-alpha", n>>

\* Director.__init__.
DirectorInit0 ==
    [ current_scene |-> NoInstance,
      next_scene_name |-> None,
      transition_alpha |-> 0,
      transitioning_scene |-> NoInstance,
      scene_start_time |-> 0,
      made |-> 0,
      calls |-> <<>>,
      raised |-> None ]

\* _complete_transition that enters the new scene before the old one exits.
complete_transition_enter_first(d, now) ==
    LET name == d.next_scene_name
        ctor_arg == IF name = "finale" THEN "finale_message" ELSE None
        new == NewScene(d.made + 1, name, ctor_arg)
    IN
    IF d.transitioning_scene # NoInstance THEN
        [ d EXCEPT !.calls = IF d.current_scene # NoInstance
                             THEN Append(d.calls, SceneCall("exit", d.current_scene, NoAlpha))
                             ELSE d.calls,
                   !.current_scene = d.transitioning_scene,
                   !.transitioning_scene = NoInstance,
                   !.next_scene_name = None,
                   !.transition_alpha = 0,
                   !.scene_start_time = now ]
    ELSE IF name \in Registered THEN
        [ d EXCEPT !.calls = d.calls
                             \o <<SceneCall("__init__", new, NoAlpha),
                                  SceneCall("enter", new, NoAlpha)>>
                             \o (IF d.current_scene # NoInstance
                                 THEN <<SceneCall("exit", d.current_scene, NoAlpha)>>
                                 ELSE <<>>),
                   !.current_scene = new,
                   !.made = d.made + 1,
                   !.next_scene_name = None,
                   !.transition_alpha = 0,
                   !.scene_start_time = now ]
    ELSE [ d EXCEPT !.next_scene_name = None,
                    !.transition_alpha = 0,
                    !.scene_start_time = now ]

\* _complete_transition that replaces the current scene without calling its
\* exit().
complete_transition_no_exit(d, now) ==
    LET name == d.next_scene_name
        ctor_arg == IF name = "finale" THEN "finale_message" ELSE None
        new == NewScene(d.made + 1, name, ctor_arg)
    IN
    IF d.transitioning_scene # NoInstance THEN
        [ d EXCEPT !.current_scene = d.transitioning_scene,
                   !.transitioning_scene = NoInstance,
                   !.next_scene_name = None,
                   !.transition_alpha = 0,
                   !.scene_start_time = now ]
    ELSE IF name \in Registered THEN
        [ d EXCEPT !.calls = d.calls
                             \o <<SceneCall("__init__", new, NoAlpha),
                                  SceneCall("enter", new, NoAlpha)>>,
                   !.current_scene = new,
                   !.made = d.made + 1,
                   !.next_scene_name = None,
                   !.transition_alpha = 0,
                   !.scene_start_time = now ]
    ELSE [ d EXCEPT !.next_scene_name = None,
                    !.transition_alpha = 0,
                    !.scene_start_time = now ]

\* _complete_transition without its closing transition_alpha = 0.0.
complete_transition_keep_alpha(d, now) ==
    LET name == d.next_scene_name
        ctor_arg == IF name = "finale" THEN "finale_message" ELSE None
        new == NewScene(d.made + 1, name, ctor_arg)
    IN
    IF d.transitioning_scene # NoInstance THEN
        [ d EXCEPT !.calls = IF d.current_scene # NoInstance
                             THEN Append(d.calls, SceneCall("exit", d.current_scene, NoAlpha))
                             ELSE d.calls,
                   !.current_scene = d.transitioning_scene,
                   !.transitioning_scene = NoInstance,
                   !.next_scene_name = None,
                   !.scene_start_time = now ]
    ELSE IF name \in Registered THEN
        [ d EXCEPT !.calls = d.calls
                             \o (IF d.current_scene # NoInstance
                                 THEN <<SceneCall("exit", d.current_scene, NoAlpha)>>
                                 ELSE <<>>)
                             \o <<SceneCall("__init__", new, NoAlpha),
                                  SceneCall("enter", new, NoAlpha)>>,
                   !.current_scene = new,
                   !.made = d.made + 1,
                   !.next_scene_name = None,
                   !.scene_start_time = now ]
    ELSE [ d EXCEPT !.next_scene_name = None,
                    !.scene_start_time = now ]

\* Director._complete_transition at clock reading now (time.time()). The scene
\* constructed is assigned to current_scene by the statement that constructs
\* it.
complete_transition(d, now) ==
    LET name == d.next_scene_name
        ctor_arg == IF name = "finale" THEN "finale_message" ELSE None
        new == NewScene(d.made + 1, name, ctor_arg)
    IN
    IF d.transitioning_scene # NoInstance THEN
        [ d EXCEPT !.calls = IF d.current_scene # NoInstance
                             THEN Append(d.calls, SceneCall("exit", d.current_scene, NoAlpha))
                             ELSE d.calls,
                   !.current_scene = d.transitioning_scene,
                   !.transitioning_scene = NoInstance,
                   !.next_scene_name = None,
                   !.transition_alpha = 0,
                   !.scene_start_time = now ]
    ELSE IF name \in Registered THEN
        [ d EXCEPT !.calls = d.calls
                             \o (IF d.current_scene # NoInstance
                                 THEN <<SceneCall("exit", d.current_scene, NoAlpha)>>
                                 ELSE <<>>)
                             \o <<SceneCall("__init__", new, NoAlpha),
                                  SceneCall("enter", new, NoAlpha)>>,
                   !.current_scene = new,
                   !.made = d.made + 1,
                   !.next_scene_name = None,
                   !.transition_alpha = 0,
                   !.scene_start_time = now ]
    ELSE [ d EXCEPT !.next_scene_name = None,
                    !.transition_alpha = 0,
                    !.scene_start_time = now ]

\* transition_to that leaves a transition already in flight as it is.
transition_to_keep_inflight(d, scene_name) ==
    IF scene_name \notin Registered
    THEN [ d EXCEPT !.raised = "ValueError" ]
    ELSE IF d.next_scene_name # None
    THEN [ d EXCEPT !.raised = None ]
    ELSE [ d EXCEPT !.next_scene_name = scene_name,
                    !.transition_alpha = 0,
                    !.raised = None ]

\* transition_to with the request recorded before the name is validated.
transition_to_assign_first(d, scene_name) ==
    [ d EXCEPT !.next_scene_name = scene_name,
               !.transition_alpha = 0,
               !.raised = IF scene_name \notin Registered THEN "ValueError" ELSE None ]

\* Director.transition_to(scene_name).
transition_to(d, scene_name) ==
    IF scene_name \notin Registered
    THEN [ d EXCEPT !.raised = "ValueError" ]
    ELSE [ d EXCEPT !.next_scene_name = scene_name,
                    !.transition_alpha = 0,
                    !.raised = None ]

\* The scene updates of update_scenes.
UpdateCalls(d) ==
    (IF d.current_scene # NoInstance
     THEN <<SceneCall("update", d.current_scene, NoAlpha)>> ELSE <<>>)
    \o (IF d.transitioning_scene # NoInstance
        THEN <<SceneCall("update", d.transitioning_scene, NoAlpha)>> ELSE <<>>)

\* update_scenes that completes only once alpha has passed 1.0.
update_scenes_late(d, dt, now) ==
    LET d1 == [ d EXCEPT !.calls = UpdateCalls(d), !.raised = None ] IN
    IF d1.next_scene_name # None
    THEN LET d2 == [ d1 EXCEPT !.transition_alpha = @ + dt ] IN
         IF d2.transition_alpha > StepsToOne
         THEN complete_transition(d2, now)
         ELSE d2
    ELSE d1

\* Director.update_scenes(dt, context) at clock reading now.
update_scenes(d, dt, now) ==
    LET d1 == [ d EXCEPT !.calls = UpdateCalls(d), !.raised = None ] IN
    IF d1.next_scene_name # None
    THEN LET d2 == [ d1 EXCEPT !.transition_alpha = @ + dt ] IN
         IF d2.transition_alpha >= StepsToOne
         THEN complete_transition(d2, now)
         ELSE d2
    ELSE d1

\* Director.render_scenes(console).
render_scenes(d) ==
    [ d EXCEPT !.raised = None,
               !.calls =
        IF d.transitioning_scene # NoInstance /\ d.current_scene # NoInstance
        THEN << SceneCall("render", d.current_scene, OldAlpha(d.transition_alpha)),
                SceneCall("render", d.transitioning_scene, NewAlpha(d.transition_alpha)) >>
        ELSE IF d.current_scene # NoInstance
        THEN << SceneCall("render", d.current_scene, FullAlpha) >>
        ELSE <<>> ]

\* The scene part of main.build_frame: the Director has no attribute
\* current_state, so scene_alpha stays 1.0, and only current_scene is rendered.
build_frame(d) ==
    [ d EXCEPT !.raised = None,
               !.calls =
        IF d.current_scene # NoInstance
        THEN << SceneCall("render", d.current_scene, FullAlpha) >>
        ELSE <<>> ]

\* check_scene_triggers that requests every name the cue map returns.
check_scene_triggers_always(d, es, last, time) ==
    LET r == get_scene_trigger(es, last, time)
        d0 == [ d EXCEPT !.calls = <<>>, !.raised = None ]
    IN
    [ last |-> r.last,
      ret |-> r.ret,
      d |-> IF Truthy(r.ret) THEN transition_to(d0, r.ret) ELSE d0 ]

\* Director.get_current_scene_name().
get_current_scene_name(d) == d.current_scene.name

\* check_scene_triggers that passes over a cue whose scene is not registered.
check_scene_triggers_swallow(d, es, last, time) ==
    LET r == get_scene_trigger(es, last, time)
        d0 == [ d EXCEPT !.calls = <<>>, !.raised = None ]
    IN
    [ last |-> r.last,
      ret |-> r.ret,
      d |-> IF Truthy(r.ret) /\ r.ret # get_current_scene_name(d) /\ r.ret \in Registered
            THEN transition_to(d0, r.ret)
            ELSE d0 ]

\* Director.check_scene_triggers(time): the Director afterwards and the cue
\* map's cursor afterwards.
check_scene_triggers(d, es, last, time) ==
    LET r == get_scene_trigger(es, last, time)
        d0 == [ d EXCEPT !.calls = <<>>, !.raised = None ]
    IN
    [ last |-> r.last,
      ret |-> r.ret,
      d |-> IF Truthy(r.ret) /\ r.ret # get_current_scene_name(d)
            THEN transition_to(d0, r.ret)
            ELSE d0 ]

\* Frame times are counted in quarters of FRAME_TIME (1.0 / TARGET_FPS), so
\* that the lag threshold FRAME_TIME * LAG_THRESHOLD_MULTIPLIER (1.5 frames)
\* is a whole number of them.
TARGET_FPS == 30
FRAME_TIME == 4
INITIAL_PARTICLE_BUDGET == 500
MIN_PARTICLE_BUDGET == 50
LagThreshold == (FRAME_TIME * 3) \div 2

\* Longest frame time passed to monitor_performance.
MaxFrameTime == 8

FrameTimes == 0..MaxFrameTime

\* The performance fields of DirectorState as constructed. fps is the
\* quotient <<numerator, denominator>>.
PerfInit0 ==
    [ last_frame_time |-> 0,
      fps |-> <<0, 1>>,
      particle_budget |-> INITIAL_PARTICLE_BUDGET ]

Max(a, b) == IF a >= b THEN a ELSE b

\* monitor_performance without the floor of MIN_PARTICLE_BUDGET.
monitor_performance_unfloored(p, frame_time) ==
    [ p EXCEPT !.last_frame_time = frame_time,
               !.fps = IF frame_time > 0
                       THEN <<TARGET_FPS * FRAME_TIME, frame_time>> ELSE @,
               !.particle_budget = IF frame_time > LagThreshold
                                   THEN (@ * 3) \div 4 ELSE @ ]

\* monitor_performance with ">=" for ">" in the lag test.
monitor_performance_at_threshold(p, frame_time) ==
    [ p EXCEPT !.last_frame_time = frame_time,
               !.fps = IF frame_time > 0
                       THEN <<TARGET_FPS * FRAME_TIME, frame_time>> ELSE @,
               !.particle_budget = IF frame_time >= LagThreshold
                                   THEN Max(MIN_PARTICLE_BUDGET, (@ * 3) \div 4)
                                   ELSE @ ]

\* Director.monitor_performance(frame_time) on the performance fields p.
\* int(budget * 0.75) is the floor of 3 * budget / 4: the product is exact in
\* a double for every budget up to 500.
monitor_performance(p, frame_time) ==
    [ p EXCEPT !.last_frame_time = frame_time,
               !.fps = IF frame_time > 0
                       THEN <<TARGET_FPS * FRAME_TIME, frame_time>> ELSE @,
               !.particle_budget = IF frame_time > LagThreshold
                                   THEN Max(MIN_PARTICLE_BUDGET, (@ * 3) \div 4)
                                   ELSE @ ]

\* ------------------------------------------------------ audio_manager.py
\* Latest reading of time.time() explored; readings are whole and positive.
MaxWall == 4

\* AudioManager.__init__: process is whether a Popen object is held; raised is
\* the exception the last call ended with.
AudioManagerInit0(mpv_available) ==
    [ mpv_available |-> mpv_available,
      process |-> FALSE,
      start_time |-> 0,
      pause_start |-> 0,
      total_paused |-> 0,
      is_playing |-> FALSE,
      is_paused |-> FALSE,
      has_error |-> FALSE,
      raised |-> None ]

\* start without the test that the audio file exists.
start_unchecked(a, now, file_exists, popen_ok) ==
    IF ~a.mpv_available
    THEN [ a EXCEPT !.has_error = TRUE, !.raised = None ]
    ELSE IF popen_ok /\ file_exists
    THEN [ a EXCEPT !.process = TRUE,
                    !.start_time = now,
                    !.total_paused = 0,
                    !.is_playing = TRUE,
                    !.is_paused = FALSE,
                    !.has_error = FALSE,
                    !.raised = None ]
    ELSE [ a EXCEPT !.has_error = TRUE, !.raised = None ]

\* AudioManager.start() at clock reading now; file_exists is
\* audio_path.exists() and popen_ok whether subprocess.Popen returns.
start(a, now, file_exists, popen_ok) ==
    IF ~a.mpv_available
    THEN [ a EXCEPT !.has_error = TRUE, !.raised = None ]
    ELSE IF ~file_exists
    THEN [ a EXCEPT !.raised = "FileNotFoundError" ]
    ELSE IF popen_ok
    THEN [ a EXCEPT !.process = TRUE,
                    !.start_time = now,
                    !.total_paused = 0,
                    !.is_playing = TRUE,
                    !.is_paused = FALSE,
                    !.has_error = FALSE,
                    !.raised = None ]
    ELSE [ a EXCEPT !.has_error = TRUE, !.raised = None ]

\* AudioManager.pause(); Popen.send_signal returns normally, also for a
\* process that has exited.
pause(a, now) ==
    IF a.process /\ a.mpv_available
    THEN [ a EXCEPT !.pause_start = now, !.is_paused = TRUE, !.raised = None ]
    ELSE [ a EXCEPT !.raised = None ]

\* AudioManager.resume().
resume(a, now) ==
    IF a.process /\ a.mpv_available
    THEN [ a EXCEPT !.total_paused = IF a.pause_start > 0
                                     THEN @ + (now - a.pause_start) ELSE @,
                    !.pause_start = 0,
                    !.is_paused = FALSE,
                    !.raised = None ]
    ELSE [ a EXCEPT !.raised = None ]

\* AudioManager.stop().
stop(a) == [ a EXCEPT !.process = FALSE, !.is_playing = FALSE, !.raised = None ]

\* AudioManager.get_time() at clock reading now.
get_time(a, now) ==
    LET elapsed == IF a.is_paused /\ a.pause_start > 0
                   THEN a.pause_start - a.start_time - a.total_paused
                   ELSE now - a.start_time - a.total_paused
    IN Max(0, elapsed)

\* ----------------------------------------------------------------- main.py
\* Seconds the finale scene is given after the song has ended.
FinaleGrace == 5

\* What the lyrics path holds: no file, a file from_json raises on, or a file
\* from_json loads.
LyricsFiles == {"missing", "malformed", "ok"}

\* load_assets(lyrics_path, audio_path): the lyric map and audio path it
\* returns and the exception it ends with. For a missing file it calls
\* LyricMap(lyrics=[], ...), and LyricMap.__init__ has no parameter lyrics.
load_assets(lyrics_file, audio_found) ==
    IF lyrics_file = "missing"
    THEN [ lyric_map |-> None, audio_path |-> FALSE, raised |-> "TypeError" ]
    ELSE [ lyric_map |-> IF lyrics_file = "ok" THEN "loaded" ELSE None,
           audio_path |-> audio_found,
           raised |-> None ]

\* The locals of main() and run_main_loop. pc is where main() stands:
\* "main" before load_assets, "run_main_loop" at the call of run_main_loop,
\* "ticking" inside its while loop, "returned" once it has returned ret,
\* "exited" once main() has returned exit_code, "crashed" once an exception
\* (raised) has left main(). updates counts the scene update calls of the
\* last tick, frame_calls the scene calls of the last tick in the order made,
\* scene_time the scene_time of its SceneContext, slept the time it slept for
\* its frame pacing (in quarters of FRAME_TIME), quit_requested the flag of
\* the NonBlockingInput, caught the exception the loop's handlers caught.
LoopInit0(lyrics_file, duration) ==
    [ pc |-> "main",
      lyrics_file |-> lyrics_file,
      duration |-> duration,
      lyric_map |-> None,
      has_audio |-> FALSE,
      is_paused |-> FALSE,
      experience_complete |-> FALSE,
      start_time |-> 0,
      current_time |-> 0,
      live |-> "none",
      updates |-> 0,
      quit_requested |-> FALSE,
      scene_time |-> 0,
      frame_calls |-> << >>,
      slept |-> 0,
      caught |-> None,
      ret |-> None,
      exit_code |-> -1,
      raised |-> None ]

\* The tick's scene update without the test of is_paused.
tick_update_always(d, is_paused, now) == update_scenes(d, 1, now)

\* run_main_loop, "Update scenes": one update of FRAME_TIME unless paused.
tick_update(d, is_paused, now) ==
    IF is_paused THEN d ELSE update_scenes(d, 1, now)

\* Most request_pause_toggle() calls made on a NonBlockingInput.
MaxRequests == 2

\* NonBlockingInput.__init__, and the caller of check(): pc is the line of
\* check() the caller is about to run, "idle" outside check(); quit_read and
\* pause_read are the locals quit_requested and pause_requested of check(),
\* ret the pair the last check() returned.
NonBlockingInputInit0 ==
    [ quit_requested |-> FALSE,
      pause_requested |-> FALSE,
      pc |-> "idle",
      quit_read |-> FALSE,
      pause_read |-> FALSE,
      ret |-> <<FALSE, FALSE>> ]

\* NonBlockingInput._handle_sigint.
handle_sigint(i) == [ i EXCEPT !.quit_requested = TRUE ]

\* NonBlockingInput.request_pause_toggle().
request_pause_toggle(i) == [ i EXCEPT !.pause_requested = TRUE ]

\* check() with the pause flag read and reset in one statement.
check_statement_swap(i) ==
    IF i.pc = "idle" THEN [ i EXCEPT !.pc = "line67" ]
    ELSE IF i.pc = "line67"
    THEN [ i EXCEPT !.quit_read = i.quit_requested, !.pc = "line68" ]
    ELSE IF i.pc = "line68"
    THEN [ i EXCEPT !.pause_read = i.pause_requested,
                    !.pause_requested = FALSE,
                    !.pc = "line71" ]
    ELSE IF i.pc = "line71"
    THEN [ i EXCEPT !.pc = "line73" ]
    ELSE [ i EXCEPT !.ret = <<i.quit_read, i.pause_read>>, !.pc = "idle" ]

\* The next statement of a check() call: the call itself, then lines 67, 68,
\* 71 and 73 of main.py.
check_statement(i) ==
    IF i.pc = "idle" THEN [ i EXCEPT !.pc = "line67" ]
    ELSE IF i.pc = "line67"
    THEN [ i EXCEPT !.quit_read = i.quit_requested, !.pc = "line68" ]
    ELSE IF i.pc = "line68"
    THEN [ i EXCEPT !.pause_read = i.pause_requested, !.pc = "line71" ]
    ELSE IF i.pc = "line71"
    THEN [ i EXCEPT !.pause_requested = FALSE, !.pc = "line73" ]
    ELSE [ i EXCEPT !.ret = <<i.quit_read, i.pause_read>>, !.pc = "idle" ]

\* check() that never reports the quit flag.
check_ignores_quit(l, pause_requested) ==
    [ should_quit |-> FALSE, toggle_pause |-> pause_requested ]

\* NonBlockingInput.check(): the pair it returns. pause_requested is the
\* pause flag, which check() resets.
check(l, pause_requested) ==
    [ should_quit |-> l.quit_requested, toggle_pause |-> pause_requested ]

\* "Set initial scene" that requests the scene and leaves its completion to
\* the updates of the loop.
set_initial_scene_pending(d, es, last, now) ==
    LET r == get_scene_trigger(es, last, 0)
        initial_scene == IF Truthy(r.ret) THEN r.ret ELSE "intro"
    IN [ last |-> r.last,
         name |-> initial_scene,
         d |-> transition_to([ d EXCEPT !.calls = << >> ], initial_scene) ]

\* run_main_loop, "Set initial scene", at clock reading now: for a Director
\* without a current scene, the cue at time 0 or "intro" is requested and
\* completed at once.
set_initial_scene(d, es, last, now) ==
    LET r == get_scene_trigger(es, last, 0)
        initial_scene == IF Truthy(r.ret) THEN r.ret ELSE "intro"
        d1 == transition_to([ d EXCEPT !.calls = << >> ], initial_scene)
    IN IF d.current_scene # NoInstance
       THEN [ last |-> last, name |-> None,
              d |-> [ d EXCEPT !.calls = << >>, !.raised = None ] ]
       ELSE [ last |-> r.last,
              name |-> initial_scene,
              d |-> IF d1.raised # None THEN d1 ELSE complete_transition(d1, now) ]

\* The frame of a pass: r is what the trigger check left, d2 the Director
\* after the scene update; the frame is built from d2.
FrameOf(r, d2) ==
    [ last |-> r.last, requested |-> r.ret, checked |-> r.d, updated |-> d2,
      rendered |-> build_frame(d2) ]

\* "Update scenes" and "Build and render frame" after a trigger check that
\* left r.
UpdatedFrame(r, is_paused, now) ==
    FrameOf(r, IF r.d.raised # None THEN r.d ELSE tick_update(r.d, is_paused, now))

\* The frame of a pass with the scene update made before the trigger check.
frame_update_first(d, es, last, time, is_paused, now) ==
    LET d1 == tick_update([ d EXCEPT !.calls = << >>, !.raised = None ], is_paused, now)
        r == check_scene_triggers(d1, es, last, time)
    IN FrameOf(r, [ r.d EXCEPT !.calls = IF is_paused THEN << >> ELSE d1.calls ])

\* run_main_loop from "Update director" to "Build and render frame", at song
\* time time and clock reading now: the Director after the trigger check,
\* after the scene update and after the frame was built. An exception of the
\* trigger check leaves the pass before the update.
frame(d, es, last, time, is_paused, now) ==
    UpdatedFrame(check_scene_triggers(d, es, last, time), is_paused, now)

\* The finally block without the audio stop.
finally_block_live_only(l, a) ==
    [ l |-> [ l EXCEPT !.live = IF @ = "started" THEN "stopped" ELSE @ ],
      a |-> a ]

\* run_main_loop, the finally block: renderer.stop_live() and, with an
\* audio manager, audio_manager.stop().
finally_block(l, a) ==
    [ l |-> [ l EXCEPT !.live = IF @ = "started" THEN "stopped" ELSE @ ],
      a |-> IF l.has_audio THEN stop(a) ELSE a ]

\* ------------------------------------------------------------ renderer.py
\* Widest frame buffer and longest text explored.
MaxWidth == 2
MaxText == 2

\* Heights of the frame buffers explored.
Heights == {1, 2}

\* A buffer cell is the pair (char, style); every style written is "".
Blank == <<" ", "">>

\* FrameBuffer.__init__: the grid maps (x, y) to a cell; raised is the
\* exception the last call ended with, writes the number of calls so far.
FrameBufferInit0(width, height) ==
    [ width |-> width,
      height |-> height,
      buffer |-> [ p \in (0..(width - 1)) \X (0..(height - 1)) |-> Blank ],
      writes |-> 0,
      raised |-> None ]

\* Position a Python list of length n reads for index i: negative indices
\* count from the end, -1 stands for IndexError.
ListIndex(i, n) ==
    IF 0 <= i /\ i < n THEN i
    ELSE IF 0 - n <= i /\ i < 0 THEN i + n
    ELSE -1

\* set without the test of the coordinates: self.buffer[y][x] = (char, style).
set_unchecked(f, x, y, char) ==
    LET col == ListIndex(x, f.width)
        row == ListIndex(y, f.height)
    IN IF col < 0 \/ row < 0
       THEN [ f EXCEPT !.raised = "IndexError", !.writes = @ + 1 ]
       ELSE [ f EXCEPT !.buffer[<<col, row>>] = <<char, "">>,
                       !.raised = None,
                       !.writes = @ + 1 ]

\* FrameBuffer.set(x, y, char).
set(f, x, y, char) ==
    IF 0 <= x /\ x < f.width /\ 0 <= y /\ y < f.height
    THEN [ f EXCEPT !.buffer[<<x, y>>] = <<char, "">>,
                    !.raised = None,
                    !.writes = @ + 1 ]
    ELSE [ f EXCEPT !.raised = None, !.writes = @ + 1 ]

\* The loop of set_text from the character at position i (counted from 1) on.
RECURSIVE set_text_from(_, _, _, _, _)
set_text_from(f, x, y, text, i) ==
    IF i > Len(text) THEN f
    ELSE set_text_from(
           IF 0 <= x + (i - 1) /\ x + (i - 1) < f.width /\ 0 <= y /\ y < f.height
           THEN [ f EXCEPT !.buffer[<<x + (i - 1), y>>] = <<text[i], "">> ]
           ELSE f,
           x, y, text, i + 1)

\* FrameBuffer.set_text(x, y, text).
set_text(f, x, y, text) ==
    [ set_text_from(f, x, y, text, 1) EXCEPT !.raised = None, !.writes = @ + 1 ]

\* ------------------------------------------------------------ particle.py
\* Most update calls made on one particle.
MaxUpdates == 4

\* Times are counted in quarters of a second and life in eighths of the full
\* life 1.0; gravity is counted in tenths, velocities in fortieths and
\* positions in 160ths of a unit. With the values below every quotient and
\* difference of the life computation is exact in a double.
LifeOne == 8
DeltaTimes == {1, 2}
MaxLives == {2, 4, 8}
Gravities == {0, 98}
Drags == {0, 4}

\* A Particle as constructed at the origin, moving to the right, with full
\* life.
ParticleInit0(gravity, drag, max_life) ==
    [ x |-> 0, y |-> 0, vx |-> 40, vy |-> 0,
      gravity |-> gravity, drag |-> drag,
      life |-> LifeOne, max_life |-> max_life ]

\* update that lowers life by dt instead of dt / max_life.
update_life_by_dt(p, dt) ==
    LET vy1 == p.vy + p.gravity * dt
        drag_factor == Max(0, 4 - p.drag * dt)
        vx2 == (p.vx * drag_factor) \div 4
        vy2 == (vy1 * drag_factor) \div 4
    IN [ p EXCEPT !.vx = vx2,
                  !.vy = vy2,
                  !.x = @ + vx2 * dt,
                  !.y = @ + vy2 * dt,
                  !.life = @ - (LifeOne * dt) \div 4 ]

\* Particle.update(dt): gravity, drag, position, life.
update(p, dt) ==
    LET vy1 == p.vy + p.gravity * dt
        drag_factor == Max(0, 4 - p.drag * dt)
        vx2 == (p.vx * drag_factor) \div 4
        vy2 == (vy1 * drag_factor) \div 4
    IN [ p EXCEPT !.vx = vx2,
                  !.vy = vy2,
                  !.x = @ + vx2 * dt,
                  !.y = @ + vy2 * dt,
                  !.life = @ - (LifeOne * dt) \div p.max_life ]

\* Particle.is_alive().
is_alive(p) == p.life > 0

\* ------------------------------------------------------------ scenes/*.py
\* Most update calls made on a scene.
MaxSceneUpdates == 4

\* context.beat_intensity explored, in tenths: the least and the greatest
\* get_beat_intensity yields for the scene, which is min(1.0, base * 1.2) for
\* the mood of "fireworks" and base * 0.7 for those of the other two.
BeatLevels(name) == IF name = "fireworks" THEN {0, 10} ELSE {0, 7}

\* Terminal sizes build_frame is handed, as <<width, height>>.
TerminalSizes == { <<80, 24>>, <<2, 2>> }

\* The scene classes modelled.
SceneKinds == {"fireworks", "finale", "heartbeat"}

\* Values of random.random() as _get_noise tells them apart: up to 0.7 and
\* above it.
Noises == {"faint", "star"}

\* A SceneContext.
SceneContext(width, height, song_time, scene_time, beat_intensity, is_transitioning) ==
    [ console_width |-> width, console_height |-> height,
      song_time |-> song_time, scene_time |-> scene_time,
      beat_intensity |-> beat_intensity, is_transitioning |-> is_transitioning ]

\* The context _complete_transition constructs a scene with.
ConstructionContext == SceneContext(80, 24, 0, 0, 0, FALSE)

\* Scene.__init__ and the __init__ of SceneFireworks, SceneFinale and
\* SceneHeartbeat, as one record with the fields of the three classes. The
\* timers burst_timer and flash_timer and message_alpha are counted in
\* twentieths (of a second, of full opacity), scene_time in quarters of a
\* second, beat_phase in eighths of a radian. particles is the list in runs
\* of particles spawned together: p is one particle of the run and n their
\* number (where a burst's particles start and how fast they move is drawn at
\* random and has no part in their life). current_scale is the list of the
\* <<dt, beat_intensity>> of the updates since enter(), which determine the
\* float. noise_map is the set of <<cell, noise>> entries.
SceneInit0(name, context) ==
    [ name |-> name,
      context |-> context,
      particles |-> << >>,
      burst_timer |-> 0,
      is_flashing |-> FALSE,
      flash_timer |-> 0,
      scene_time |-> 0,
      message_alpha |-> 0,
      beat_phase |-> 0,
      current_scale |-> << >>,
      noise_map |-> {} ]

RECURSIVE CountUpTo(_, _)
CountUpTo(ps, i) == IF i = 0 THEN 0 ELSE ps[i].n + CountUpTo(ps, i - 1)

\* Scene.get_particle_count(): len(self.particles).
get_particle_count(s) == CountUpTo(s.particles, Len(s.particles))

\* "for p in self.particles: p.update(dt)".
update_particles(ps, dt) ==
    [ i \in 1..Len(ps) |-> [ ps[i] EXCEPT !.p = update(@, dt) ] ]

\* The update of a scene that keeps its dead particles.
alive_particles_keep_dead(ps) == ps

\* "self.particles = [p for p in self.particles if p.is_alive()]".
alive_particles(ps) == SelectSeq(ps, LAMBDA g : is_alive(g.p))

\* SceneFireworks._spawn_burst(context): int(20 + beat_intensity * 30)
\* particles of create_burst, which live 2.0 s.
spawn_burst(s, context) ==
    [ s EXCEPT !.particles =
        Append(@, [ p |-> ParticleInit0(98, 0, 8),
                    n |-> 20 + (context.beat_intensity * 30) \div 10 ]) ]

\* SceneFireworks.update(dt, context). burst_interval is 0.5 s and the timer
\* is set to burst_interval * (1.1 - beat_intensity * 0.5), 0.55 s or 0.3 s;
\* the flash lasts flash_duration, 0.1 s.
fireworks_update(s, dt, context) ==
    LET timer == s.burst_timer - 5 * dt
        s1 == IF timer <= 0
              THEN [ spawn_burst(s, context) EXCEPT
                       !.burst_timer = (10 * (110 - context.beat_intensity * 5)) \div 100 ]
              ELSE [ s EXCEPT !.burst_timer = timer ]
        s2 == IF s1.burst_timer > 10 - 2
              THEN [ s1 EXCEPT !.is_flashing = TRUE, !.flash_timer = 2 ]
              ELSE s1
        s3 == IF s2.is_flashing
              THEN [ s2 EXCEPT !.flash_timer = @ - 5 * dt,
                               !.is_flashing = ~(s2.flash_timer - 5 * dt <= 0) ]
              ELSE s2
    IN [ s3 EXCEPT !.particles = alive_particles(update_particles(@, dt)) ]

\* SceneFinale._spawn_gentle_burst(context): 8 + int(beat_intensity * 5)
\* particles floating upward; their lifetimes are drawn from 1.5 s to 3.0 s,
\* here 2.0 s.
spawn_gentle_burst(s, context) ==
    [ s EXCEPT !.particles =
        Append(@, [ p |-> ParticleInit0(-20, 0, 8),
                    n |-> 8 + (context.beat_intensity * 5) \div 10 ]) ]

\* SceneFinale.update(dt, context): a burst every 0.8 s, and the message
\* fades in by dt * 0.8 once scene_time is past 1.0 s.
finale_update(s, dt, context) ==
    LET s0 == [ s EXCEPT !.scene_time = @ + dt ]
        timer == s.burst_timer - 5 * dt
        s1 == IF timer <= 0
              THEN [ spawn_gentle_burst(s0, context) EXCEPT !.burst_timer = 16 ]
              ELSE [ s0 EXCEPT !.burst_timer = timer ]
        s2 == [ s1 EXCEPT !.particles = alive_particles(update_particles(@, dt)) ]
    IN IF s2.scene_time > 4
       THEN [ s2 EXCEPT !.message_alpha = IF @ + 4 * dt < 20 THEN @ + 4 * dt ELSE 20 ]
       ELSE s2

\* SceneHeartbeat.update(dt, context): beat_phase += dt * 3.5, and
\* current_scale moves toward a target that depends on the phase and the beat.
heartbeat_update(s, dt, context) ==
    [ s EXCEPT !.beat_phase = @ + 7 * dt,
               !.current_scale = Append(@, <<dt, context.beat_intensity>>) ]

\* scene.update(dt, context).
scene_update(s, dt, context) ==
    IF s.name = "fireworks" THEN fireworks_update(s, dt, context)
    ELSE IF s.name = "finale" THEN finale_update(s, dt, context)
    ELSE heartbeat_update(s, dt, context)

\* The cells the particles of a scene are painted into: int(p.x), int(p.y)
\* when inside the console.
ParticleCells(s) ==
    { c \in { << s.particles[i].p.x \div 160, s.particles[i].p.y \div 160 >> :
                i \in 1..Len(s.particles) } :
        /\ 0 <= c[1] /\ c[1] < s.context.console_width
        /\ 0 <= c[2] /\ c[2] < s.context.console_height }

\* SceneFireworks.render(buffer, alpha): the scene afterwards and the cells
\* painted.
fireworks_render(s) == [ s |-> s, painted |-> ParticleCells(s) ]

\* SceneFinale.render(buffer, alpha): the particles, and with message_alpha
\* above 0 the heart line in row cy - 3 and the one-line message in row
\* cy - 1, painted as <<"text", row>>.
finale_render(s) ==
    LET cy == s.context.console_height \div 2
        rows == IF s.message_alpha > 0
                THEN { y \in {cy - 3, cy - 1} : 0 <= y /\ y < s.context.console_height }
                ELSE {}
    IN [ s |-> s, painted |-> ParticleCells(s) \cup { <<"text", y>> : y \in rows } ]

\* SceneHeartbeat._get_noise(x, y) when random.random() would yield noise: the
\* cached value, or noise, which is cached.
get_noise(s, cell, noise) ==
    LET cached == { e \in s.noise_map : e[1] = cell } IN
    IF cached # {}
    THEN [ s |-> s, noise |-> (CHOOSE e \in cached : TRUE)[2] ]
    ELSE [ s |-> [ s EXCEPT !.noise_map = @ \cup { <<cell, noise>> } ], noise |-> noise ]

\* SceneHeartbeat.render(buffer, alpha), followed at the centre cell
\* <<cx, cy>>: there nx = ny = 0, the heart equation gives -1 whatever the
\* scale, so the cell is in the stardust fill, which asks _get_noise and
\* paints a star where the noise is above 0.7.
heartbeat_render(s, noise) ==
    LET cell == << s.context.console_width \div 2, s.context.console_height \div 2 >>
        r == get_noise(s, cell, noise)
    IN [ s |-> r.s, painted |-> IF r.noise = "star" THEN {cell} ELSE {} ]

\* scene.render(buffer, alpha).
render(s, noise) ==
    IF s.name = "fireworks" THEN fireworks_render(s)
    ELSE IF s.name = "finale" THEN finale_render(s)
    ELSE heartbeat_render(s, noise)

\* build_frame, "Render the current scene to the buffer": a new SceneContext
\* with the terminal size and beat of the pass is assigned to scene.context,
\* then the scene is rendered. Its song_time and scene_time are 0: the
\* Director has neither a song_time nor a current_state attribute.
build_frame_scene(s, size, beat_intensity, noise) ==
    render([ s EXCEPT !.context = SceneContext(size[1], size[2], 0, 0, beat_intensity, FALSE) ],
           noise)

\* ------------------------------------------------------------------ state
VARIABLES
    entries,                     \* LyricMap.entries
    last_triggered_scene_time,   \* LyricMap._last_triggered_scene_time
    op,                          \* the last call made
    arg,                         \* its time argument
    trigger_ret,                 \* what the last get_scene_trigger returned
    lyric_ret,                   \* what the last get_lyric_at returned (position)
    fired,                       \* cue time -> number of times it fired (capped at 2)
    covered,                     \* trigger times some query fell on or just after
    monotone,                    \* the trigger queries so far never went back
    lastq,                       \* time of the latest trigger query, -1 for none
    director,                    \* the Director's fields, the scene instances made
                                 \* so far and the scene calls of its last call
    overridden,                  \* the target in flight that the latest request replaced
    life,                        \* scene instance id -> the lifecycle calls it has received
    perf,                        \* the Director's performance fields
    am,                          \* the AudioManager's fields
    wall,                        \* the reading of time.time()
    paused_span,                 \* whether a pause() awaits its resume(), and the
                                 \* clock time spent so since start()
    loop,                        \* the locals of main() and run_main_loop
    input,                       \* a NonBlockingInput and the caller of its check()
    asked,                       \* the pause requests made on it and the toggles
                                 \* its check() calls returned
    fb,                          \* a FrameBuffer
    fb_call,                     \* the arguments of the last call on it
    particle,                    \* a Particle
    flown,                       \* the update calls made on it and their summed dt
    stage,                       \* a scene instance
    painted,                     \* what its last render painted
    staged                       \* the update calls made on it and their summed dt

lyricVars == <<entries, last_triggered_scene_time>>
probeVars == <<fired, covered, monotone, lastq>>
callVars == <<op, arg, trigger_ret, lyric_ret>>
dirVars == <<director, overridden, life>>
perfVars == <<perf>>
audioVars == <<am, wall, paused_span>>
loopVars == <<loop, input, asked>>
drawVars == <<fb, fb_call, particle, flown, stage, painted, staged>>
vars == <<lyricVars, probeVars, callVars, dirVars, perfVars, audioVars, loopVars,
          drawVars>>

\* The cue lists a LyricMap is constructed from: the text of an entry names
\* its position in the input.
RawEntries(n) ==
    { [i \in 1..n |-> LyricEntry(f[i][1], ToString(i), f[i][2])] :
        f \in [1..n -> Times \X CueScenes] }

CueInputs == UNION { RawEntries(n) : n \in 0..MaxLen }

\* LyricMap.__init__; _last_triggered_scene_time is created as -1.0 by the
\* first get_scene_trigger call, which is the only reader.
LyricMapInit(raw) ==
    /\ entries = SortedByTime(raw)
    /\ last_triggered_scene_time = -1

DirInit ==
    /\ director = DirectorInit0
    /\ overridden = None
    /\ life = << >>
    /\ perf = PerfInit0

\* The clock reads 1 when the run begins.
AudioInit(mpv_available) ==
    /\ am = AudioManagerInit0(mpv_available)
    /\ wall = 1
    /\ paused_span = [open |-> FALSE, total |-> 0]

\* Song length read from the cue file.
SongDurations == {MaxTime + 1}

InputInit ==
    /\ input = NonBlockingInputInit0
    /\ asked = [requests |-> 0, toggles |-> 0, owed |-> FALSE]

LoopInit(lyrics_file) ==
    /\ \E duration \in SongDurations : loop = LoopInit0(lyrics_file, duration)
    /\ InputInit

FrameInit(width, height) ==
    /\ fb = FrameBufferInit0(width, height)
    /\ fb_call = [x |-> 0, y |-> 0, text |-> << >>]

ParticleInit(gravity, drag, max_life) ==
    /\ particle = ParticleInit0(gravity, drag, max_life)
    /\ flown = [updates |-> 0, dt |-> 0]

\* A scene as _complete_transition constructs and enters it.
SceneInit(name) ==
    /\ stage = SceneInit0(name, ConstructionContext)
    /\ painted = {}
    /\ staged = [updates |-> 0, dt |-> 0]

\* The parts of the state a specification does not exercise, as constructed.
DrawInit ==
    /\ FrameInit(1, 1)
    /\ ParticleInit(0, 0, 8)
    /\ SceneInit("fireworks")

ProbeInit ==
    /\ op = "init"
    /\ arg = 0
    /\ trigger_ret = None
    /\ lyric_ret = 0
    /\ fired = [t \in Times |-> 0]
    /\ covered = {}
    /\ monotone = TRUE
    /\ lastq = -1

\* Trigger times of a cue list, and the one a query at time t falls on: the
\* greatest trigger time <= t.
TriggerTimes(es) == { es[i].time : i \in { j \in 1..Len(es) : Truthy(es[j].scene) } }

CoveredBy(es, t) ==
    { T \in TriggerTimes(es) :
        T <= t /\ \A T2 \in TriggerTimes(es) : T2 > T => t < T2 }

\* A call of get_scene_trigger(t).
GetSceneTrigger(t) ==
    LET r == get_scene_trigger(entries, last_triggered_scene_time, t) IN
    /\ last_triggered_scene_time' = r.last
    /\ trigger_ret' = r.ret
    /\ op' = "get_scene_trigger"
    /\ arg' = t
    /\ lyric_ret' = 0
    /\ fired' = IF r.ret # None /\ r.last \in Times
                THEN [fired EXCEPT ![r.last] = IF @ < 2 THEN @ + 1 ELSE 2]
                ELSE fired
    /\ covered' = covered \cup CoveredBy(entries, t)
    /\ monotone' = (monotone /\ t >= lastq)
    /\ lastq' = t
    /\ UNCHANGED <<entries, dirVars, perfVars, audioVars, loopVars, drawVars>>

\* A call of get_lyric_at(t).
GetLyricAt(t) ==
    /\ lyric_ret' = get_lyric_at(entries, t)
    /\ op' = "get_lyric_at"
    /\ arg' = t
    /\ trigger_ret' = None
    /\ UNCHANGED <<lyricVars, probeVars, dirVars, perfVars, audioVars, loopVars, drawVars>>

LyricInit ==
    /\ \E raw \in CueInputs : LyricMapInit(raw)
    /\ ProbeInit
    /\ DirInit
    /\ AudioInit(TRUE)
    /\ LoopInit("ok")
    /\ DrawInit

LyricNext ==
    \/ \E t \in Times : GetSceneTrigger(t)
    \/ \E t \in Times : GetLyricAt(t)

\* A cue map queried at arbitrary times, in any order.
LyricSpec == LyricInit /\ [][LyricNext]_vars

\* ------------------------------------------------------ the Director's calls
\* Most scene instances constructed in one run.
MaxScenes == 2

\* Longest cue list the Director is run over.
MaxDirCues == 2

\* The cue lists the Director is run over: one scene trigger per second from
\* time 0 on, each for "intro" or "starfield".
DirectorCueInputs ==
    UNION { { [i \in 1..n |-> LyricEntry(i - 1, "", f[i])] :
                f \in [1..n -> {"intro", "starfield"}] } :
            n \in 0..MaxDirCues }

\* Bookkeeping of the requests: name is the scene name a call passed to
\* transition_to, None when it made no request. overridden is the target that
\* was in flight when a request for another name was accepted; it is forgotten
\* when the next transition is requested after a completion.
Track(pre, post, name) ==
    overridden' =
         IF name = None \/ post.raised # None THEN overridden
         ELSE IF pre.next_scene_name = None THEN None
         ELSE IF name # pre.next_scene_name THEN pre.next_scene_name
         ELSE overridden

\* What a scene instance has received so far: its enter() and exit() calls,
\* counted up to 2, and whether an update() or render() reached it before its
\* enter() or after its exit(), or an enter() after its exit().
NewLife == [enters |-> 0, exits |-> 0, stray |-> FALSE]

LifeStep(l, c) ==
    IF c.op = "__init__" THEN Append(l, NewLife)
    ELSE IF c.op = "enter"
    THEN [ l EXCEPT ![c.id].enters = IF @ < 2 THEN @ + 1 ELSE 2,
                    ![c.id].stray = @ \/ l[c.id].exits > 0 ]
    ELSE IF c.op = "exit"
    THEN [ l EXCEPT ![c.id].exits = IF @ < 2 THEN @ + 1 ELSE 2 ]
    ELSE [ l EXCEPT ![c.id].stray = @ \/ l[c.id].enters = 0 \/ l[c.id].exits > 0 ]

RECURSIVE Lifecycle(_, _)
Lifecycle(l, calls) ==
    IF calls = << >> THEN l
    ELSE Lifecycle(LifeStep(l, Head(calls)), Tail(calls))

\* The scene calls of a Director call reach the instances.
Lived(calls) == life' = Lifecycle(life, calls)

\* A call on the Director; ret is what the cue map returned to it.
DirectorCallRet(name, t, ret) ==
    /\ op' = name
    /\ arg' = t
    /\ trigger_ret' = ret
    /\ lyric_ret' = 0
    /\ UNCHANGED <<entries, probeVars, perfVars, audioVars, loopVars, drawVars>>

DirectorCall(name, t) == DirectorCallRet(name, t, None)

\* director.transition_to(name) called by the Director's owner.
TransitionTo(name) ==
    LET post == transition_to([director EXCEPT !.calls = <<>>], name) IN
    /\ director' = post
    /\ Track(director, post, name)
    /\ Lived(post.calls)
    /\ DirectorCall("transition_to", 0)
    /\ UNCHANGED last_triggered_scene_time

\* director.update_scenes(dt, context).
UpdateScenes(dt) ==
    LET post == update_scenes(director, dt, wall) IN
    /\ post.made <= MaxScenes
    /\ director' = post
    /\ Track(director, post, None)
    /\ Lived(post.calls)
    /\ DirectorCall("update_scenes", 0)
    /\ UNCHANGED last_triggered_scene_time

\* director.render_scenes(console).
RenderScenes ==
    LET post == render_scenes(director) IN
    /\ director' = post
    /\ Track(director, post, None)
    /\ Lived(post.calls)
    /\ DirectorCall("render_scenes", 0)
    /\ UNCHANGED last_triggered_scene_time

\* main.build_frame(renderer, director, ...).
BuildFrame ==
    LET post == build_frame(director) IN
    /\ director' = post
    /\ Track(director, post, None)
    /\ Lived(post.calls)
    /\ DirectorCall("build_frame", 0)
    /\ UNCHANGED last_triggered_scene_time

\* director.check_scene_triggers(t).
CheckSceneTriggers(t) ==
    LET r == check_scene_triggers(director, entries, last_triggered_scene_time, t)
        name == get_scene_trigger(entries, last_triggered_scene_time, t).ret
    IN
    /\ director' = r.d
    /\ last_triggered_scene_time' = r.last
    /\ Track(director, r.d,
             IF Truthy(name) /\ name # get_current_scene_name(director)
             THEN name ELSE None)
    /\ Lived(r.d.calls)
    /\ DirectorCallRet("check_scene_triggers", 0, name)

\* run_main_loop, "Set initial scene": the cue at time 0 or "intro", requested
\* and completed at once. main() hands run_main_loop a Director on which
\* nothing has been requested yet.
SetInitialScene ==
    LET r == set_initial_scene(director, entries, last_triggered_scene_time, wall) IN
    /\ director.current_scene = NoInstance
    /\ director.next_scene_name = None
    /\ r.d.made <= MaxScenes
    /\ director' = r.d
    /\ last_triggered_scene_time' = r.last
    /\ Track(director, r.d, r.name)
    /\ Lived(r.d.calls)
    /\ DirectorCall("set_initial_scene", 0)

DirectorInit ==
    /\ \E raw \in DirectorCueInputs : LyricMapInit(raw)
    /\ ProbeInit
    /\ DirInit
    /\ AudioInit(TRUE)
    /\ LoopInit("ok")
    /\ DrawInit

DirectorNext ==
    \/ \E name \in SceneNames : TransitionTo(name)
    \/ \E dt \in Dts : UpdateScenes(dt)
    \/ RenderScenes
    \/ BuildFrame
    \/ \E t \in Times : CheckSceneTriggers(t)
    \/ SetInitialScene

\* A Director over a cue map, its methods called in any order.
DirectorSpec == DirectorInit /\ [][DirectorNext]_vars

\* ------------------------------------------------- the performance governor
\* director.monitor_performance(frame_time).
MonitorPerformance(frame_time) ==
    /\ perf' = monitor_performance(perf, frame_time)
    /\ op' = "monitor_performance"
    /\ arg' = frame_time
    /\ UNCHANGED <<trigger_ret, lyric_ret, lyricVars, probeVars, dirVars, audioVars, loopVars, drawVars>>

\* The Directors whose monitor is called: one just constructed, one showing
\* the initial scene, and one a frame into a transition to "starfield".
GovernorDirectors ==
    LET shown == set_initial_scene(DirectorInit0, << >>, -1, 1).d
        fading == update_scenes(transition_to(shown, "starfield"), 1, 1)
    IN { <<DirectorInit0, << >> >>,
         <<shown, shown.calls>>,
         <<fading, shown.calls \o fading.calls>> }

GovernorInit ==
    /\ LyricMapInit(<< >>)
    /\ ProbeInit
    /\ \E g \in GovernorDirectors :
          /\ director = g[1]
          /\ life = Lifecycle(<< >>, g[2])
    /\ overridden = None
    /\ perf = PerfInit0
    /\ AudioInit(TRUE)
    /\ LoopInit("ok")
    /\ DrawInit

GovernorNext == \E frame_time \in FrameTimes : MonitorPerformance(frame_time)

\* A Director whose performance monitor is fed arbitrary frame times.
GovernorSpec == GovernorInit /\ [][GovernorNext]_vars

\* ---------------------------------------------------- the audio time source
\* A call on the AudioManager that is neither pause() nor resume().
AudioCall(name) ==
    /\ op' = name
    /\ UNCHANGED <<trigger_ret, lyric_ret, lyricVars, probeVars, dirVars, perfVars, loopVars, drawVars>>

\* audio_manager.start(), called once while no player process is held.
Start(file_exists, popen_ok) ==
    /\ ~am.process
    /\ am' = start(am, wall, file_exists, popen_ok)
    /\ paused_span' = [open |-> FALSE, total |-> 0]
    /\ arg' = 0
    /\ AudioCall("start")
    /\ UNCHANGED wall

\* audio_manager.pause().
Pause ==
    /\ am' = pause(am, wall)
    /\ paused_span' = [paused_span EXCEPT !.open = @ \/ (am.process /\ am.mpv_available)]
    /\ arg' = 0
    /\ AudioCall("pause")
    /\ UNCHANGED wall

\* audio_manager.resume().
Resume ==
    /\ am' = resume(am, wall)
    /\ paused_span' = [paused_span EXCEPT !.open = @ /\ ~(am.process /\ am.mpv_available)]
    /\ arg' = 0
    /\ AudioCall("resume")
    /\ UNCHANGED wall

\* audio_manager.stop().
Stop ==
    /\ am' = stop(am)
    /\ paused_span' = [paused_span EXCEPT !.open = FALSE]
    /\ arg' = 0
    /\ AudioCall("stop")
    /\ UNCHANGED wall

\* audio_manager.get_time(); arg records what it returned.
GetTime ==
    /\ arg' = get_time(am, wall)
    /\ AudioCall("get_time")
    /\ UNCHANGED audioVars

\* The clock moves on by one.
Elapse ==
    /\ wall < MaxWall
    /\ wall' = wall + 1
    /\ paused_span' = [paused_span EXCEPT !.total = IF paused_span.open THEN @ + 1 ELSE @]
    /\ arg' = 0
    /\ AudioCall("elapse")
    /\ UNCHANGED am

AudioSpecInit ==
    /\ LyricMapInit(<< >>)
    /\ ProbeInit
    /\ DirInit
    /\ \E mpv_available \in BOOLEAN : AudioInit(mpv_available)
    /\ LoopInit("ok")
    /\ DrawInit

AudioNext ==
    \/ \E file_exists \in BOOLEAN, popen_ok \in BOOLEAN : Start(file_exists, popen_ok)
    \/ Pause
    \/ Resume
    \/ Stop
    \/ GetTime
    \/ Elapse

\* An AudioManager whose methods are called in any order as time passes.
AudioSpec == AudioSpecInit /\ [][AudioNext]_vars

\* ------------------------------------------------------------- the main loop
\* The cue lists the main loop is run over: those of the Director, and the
\* lists of MaxDirCues cues whose first cue is at time 1.
LoopCueInputs ==
    DirectorCueInputs
    \cup { [i \in 1..MaxDirCues |-> LyricEntry(i, "", f[i])] :
             f \in [1..MaxDirCues -> {"intro", "starfield"}] }
    \cup { [i \in 1..MaxDirCues |->
              LyricEntry(i, "", IF i = MaxDirCues THEN "bogus" ELSE f[i])] :
             f \in [1..MaxDirCues -> {"intro", "starfield"}] }
    \cup { <<LyricEntry(0, "", name)>> : name \in {"bogus", "finale"} }

\* Exceptions raised while a frame is built and displayed.
Faults == {None, "Exception", "KeyboardInterrupt"}

\* A step of main() outside the Director and cue-map bookkeeping.
LoopCall(name, t) ==
    /\ op' = name
    /\ arg' = t
    /\ trigger_ret' = None
    /\ UNCHANGED <<entries, probeVars, perfVars, drawVars, input, asked>>

\* main() up to the call of run_main_loop: load_assets, then the components
\* and the audio manager are constructed. audio_found is audio_path.exists().
Main(audio_found) ==
    LET a == load_assets(loop.lyrics_file, audio_found) IN
    /\ loop.pc = "main"
    /\ loop' = IF a.raised # None
                THEN [ loop EXCEPT !.pc = "crashed", !.raised = a.raised ]
                ELSE IF a.lyric_map = None
                THEN [ loop EXCEPT !.pc = "exited", !.exit_code = 1 ]
                ELSE [ loop EXCEPT !.pc = "run_main_loop",
                                   !.lyric_map = a.lyric_map,
                                   !.has_audio = a.audio_path ]
    /\ LoopCall("main", 0)
    /\ UNCHANGED <<last_triggered_scene_time, lyric_ret, dirVars, audioVars>>

\* run_main_loop up to its while loop: audio start, initial scene, Live
\* display, start_time. Both the audio start and the initial scene are
\* outside the try block.
RunMainLoop(file_exists, popen_ok) ==
    LET a1 == IF loop.has_audio THEN start(am, wall, file_exists, popen_ok) ELSE am
        r == set_initial_scene(director, entries, last_triggered_scene_time, wall)
        l1 == [ loop EXCEPT !.has_audio = @ /\ ~a1.has_error ]
    IN
    /\ loop.pc = "run_main_loop"
    /\ am' = a1
    /\ IF a1.raised # None
       THEN /\ loop' = [ loop EXCEPT !.pc = "crashed", !.raised = a1.raised ]
            /\ UNCHANGED <<last_triggered_scene_time, dirVars>>
       ELSE /\ loop' = IF r.d.raised # None
                        THEN [ l1 EXCEPT !.pc = "crashed", !.raised = r.d.raised ]
                        ELSE [ l1 EXCEPT !.pc = "ticking",
                                         !.live = "started",
                                         !.start_time = wall ]
            /\ director' = r.d
            /\ last_triggered_scene_time' = r.last
            /\ Track(director, r.d, r.name)
            /\ Lived(r.d.calls)
    /\ LoopCall("run_main_loop", 0)
    /\ UNCHANGED <<lyric_ret, wall, paused_span>>

\* SIGINT is delivered while the handler of the NonBlockingInput is
\* installed: _handle_sigint sets the flag. The handler does nothing else and
\* a pass reads the flag in check() only, so a delivery during a pass is this
\* step taken before the pass when check() has not read the flag yet, and
\* after the pass otherwise.
Sigint ==
    /\ loop.pc \in {"run_main_loop", "ticking"}
    /\ loop' = [ loop EXCEPT !.quit_requested = TRUE ]
    /\ LoopCall("sigint", 0)
    /\ UNCHANGED <<last_triggered_scene_time, lyric_ret, dirVars, audioVars>>

\* Frame durations the loop measures: half a frame and the longest one.
TickFrameTimes == {FRAME_TIME \div 2, MaxFrameTime}

\* The passes explored, as <<elapsed, frame_time>>: a pass of half a frame
\* within one clock reading, and a pass of the longest duration over which the
\* clock reading moves on.
PassTimes == { <<0, FRAME_TIME \div 2>>, <<1, MaxFrameTime>> }

\* A loop whose test of the song's end never succeeds.
outcome_runs_on(should_quit, ended, exc) ==
    IF should_quit THEN "quit"
    ELSE IF exc # None THEN "raise"
    ELSE "ok"

\* How a pass ends: "quit" at the test of should_quit, "complete" at the end
\* of the song, "raise" with an exception, "ok" at the end of its body.
outcome(should_quit, ended, exc) ==
    IF should_quit THEN "quit"
    ELSE IF ended THEN "complete"
    ELSE IF exc # None THEN "raise"
    ELSE "ok"

\* What a pass leaves behind. c is what check() returned, is_paused the pause
\* state after the toggle, am1 and span1 the audio manager after it,
\* current_time and scene_time the times of the pass, ended whether the song
\* is over, f the frame of the pass, fault what building and displaying it
\* raises.
TickEffect(c, is_paused, am1, span1, current_time, scene_time, ended, f, fault, elapsed, frame_time) ==
    LET exc == IF f.checked.raised # None THEN f.checked.raised ELSE fault
        out == outcome(c.should_quit, ended, exc)
        l1 == [ loop EXCEPT
                  !.is_paused = IF out = "quit" THEN @ ELSE is_paused,
                  !.experience_complete = (out = "complete"),
                  !.current_time = IF out \in {"raise", "ok"} THEN current_time ELSE @,
                  !.scene_time = IF out \in {"raise", "ok"} THEN scene_time ELSE @,
                  !.updates = IF out \in {"raise", "ok"}
                              THEN Cardinality({ i \in 1..Len(f.updated.calls) :
                                                   f.updated.calls[i].op = "update" })
                              ELSE 0,
                  !.frame_calls = IF out = "ok" THEN f.updated.calls \o f.rendered.calls
                                  ELSE IF out = "raise" THEN f.updated.calls
                                  ELSE << >>,
                  !.slept = IF out = "ok" THEN Max(0, FRAME_TIME - frame_time) ELSE 0,
                  !.caught = IF out = "raise" THEN exc ELSE @,
                  !.ret = IF out = "ok" THEN @
                          ELSE IF out = "complete" THEN "True" ELSE "False",
                  !.pc = IF out = "ok" THEN @ ELSE "returned" ]
        fin == IF out = "ok"
               THEN [ l |-> l1, a |-> am1 ]
               ELSE finally_block(l1, IF out = "quit" THEN am ELSE am1)
    IN
    /\ out \in {"raise", "ok"} => f.updated.made <= MaxScenes
    /\ loop' = fin.l
    /\ am' = fin.a
    /\ wall' = IF out = "ok" THEN wall + elapsed ELSE wall
    /\ paused_span' =
         IF out = "quit" THEN [ paused_span EXCEPT !.open = FALSE ]
         ELSE IF out = "ok"
         THEN [ span1 EXCEPT !.total = IF span1.open THEN @ + elapsed ELSE @ ]
         ELSE [ span1 EXCEPT !.open = FALSE ]
    /\ IF out \in {"raise", "ok"}
       THEN /\ director' = IF out = "ok" THEN f.rendered ELSE f.updated
            /\ last_triggered_scene_time' = f.last
            /\ lyric_ret' = get_lyric_at(entries, current_time)
            /\ Track(director, f.checked,
                     IF Truthy(f.requested)
                        /\ f.requested # get_current_scene_name(director)
                     THEN f.requested ELSE None)
            /\ Lived(IF out = "ok" THEN f.updated.calls \o f.rendered.calls
                     ELSE f.updated.calls)
       ELSE UNCHANGED <<last_triggered_scene_time, lyric_ret, dirVars>>
    /\ LoopCall("tick", current_time)

\* One pass of the while loop of run_main_loop. toggle_pause is the pause
\* flag input_handler.check() finds, elapsed the change of the clock reading
\* over the pass, frame_time the duration the pass measures for its frame
\* pacing, fault what building and displaying the frame raises.
Tick(toggle_pause, elapsed, frame_time, fault) ==
    LET c == check(loop, toggle_pause)
        is_paused == IF c.toggle_pause THEN ~loop.is_paused ELSE loop.is_paused
        signalled == c.toggle_pause /\ loop.has_audio
        am1 == IF ~signalled THEN am
               ELSE IF is_paused THEN pause(am, wall) ELSE resume(am, wall)
        span1 == IF ~signalled THEN paused_span
                 ELSE [ paused_span EXCEPT !.open = is_paused ]
        current_time == IF loop.has_audio THEN get_time(am1, wall)
                        ELSE wall - loop.start_time
        scene_name == IF get_current_scene_name(director) = None THEN "intro"
                      ELSE get_current_scene_name(director)
        ended == /\ current_time >= loop.duration
                 /\ scene_name = "finale" => current_time >= loop.duration + FinaleGrace
        scene_time == current_time - director.scene_start_time
    IN
    /\ loop.pc = "ticking"
    /\ wall + elapsed <= MaxWall + (IF scene_name = "finale" THEN FinaleGrace ELSE 0)
    /\ TickEffect(c, is_paused, am1, span1, current_time, scene_time, ended,
                  frame(director, entries, last_triggered_scene_time, current_time,
                        is_paused, wall),
                  fault, elapsed, frame_time)

\* main() after run_main_loop has returned: the finale sequence when the
\* experience completed, then exit code 0.
MainReturn ==
    /\ loop.pc = "returned"
    /\ loop' = [ loop EXCEPT !.pc = "exited", !.exit_code = 0 ]
    /\ LoopCall("main_return", 0)
    /\ UNCHANGED <<last_triggered_scene_time, lyric_ret, dirVars, audioVars>>

LoopSpecInit ==
    /\ \E lyrics_file \in LyricsFiles, raw \in LoopCueInputs :
          /\ lyrics_file # "ok" => raw = << >>
          /\ LyricMapInit(raw)
          /\ LoopInit(lyrics_file)
    /\ ProbeInit
    /\ DirInit
    /\ \E mpv_available \in BOOLEAN : AudioInit(mpv_available)
    /\ DrawInit

LoopNext ==
    \/ \E audio_found \in BOOLEAN : Main(audio_found)
    \/ \E file_exists \in BOOLEAN, popen_ok \in BOOLEAN : RunMainLoop(file_exists, popen_ok)
    \/ Sigint
    \/ \E toggle_pause \in BOOLEAN, pass \in PassTimes, fault \in Faults :
            Tick(toggle_pause, pass[1], pass[2], fault)
    \/ MainReturn

\* One run of main(): assets, the main loop over the cue map, exit.
LoopSpec == LoopSpecInit /\ [][LoopNext]_vars

\* A pass of the while loop, whatever its inputs: Tick is the one step that
\* records op = "tick".
TickStep == loop.pc = "ticking" /\ op' = "tick"

\* Weak fairness of the pass, WF_vars(TickStep), with its ENABLED written out:
\* in the loop a pass can always be made.
TickFair == []<>(loop.pc # "ticking") \/ []<><<TickStep>>_vars

\* The run with its while loop kept going: "while True" starts the next pass
\* as soon as one has ended without leaving the loop.
LoopLiveSpec == LoopSpec /\ TickFair

\* ------------------------------------------------------- the frame buffer
\* The texts written: the first characters of "abcd".
\* ------------------------------------------------------ the input handler
\* A step on the NonBlockingInput.
InputCall(name) ==
    /\ op' = name
    /\ UNCHANGED <<arg, trigger_ret, lyric_ret, lyricVars, probeVars, dirVars,
                   perfVars, audioVars, loop, drawVars>>

\* request_pause_toggle() is called, by whatever reads the keyboard; the
\* request is owed a toggle.
RequestPauseToggle ==
    /\ asked.requests < MaxRequests
    /\ input' = request_pause_toggle(input)
    /\ asked' = [ asked EXCEPT !.requests = @ + 1, !.owed = TRUE ]
    /\ InputCall("request_pause_toggle")

\* SIGINT is delivered.
HandleSigint ==
    /\ ~input.quit_requested
    /\ input' = handle_sigint(input)
    /\ UNCHANGED asked
    /\ InputCall("sigint")

\* The loop runs the next statement of check(); a check() that returns
\* toggle_pause = True toggles pause and settles the requests made so far.
CheckStatement ==
    LET post == check_statement(input)
        toggled == post.pc = "idle" /\ post.ret[2]
    IN
    /\ input' = post
    /\ asked' = IF toggled
                THEN [ asked EXCEPT !.toggles = @ + 1, !.owed = FALSE ]
                ELSE asked
    /\ InputCall(IF post.pc = "idle" THEN "check" ELSE "check_statement")

InputSpecInit ==
    /\ LyricMapInit(<< >>)
    /\ ProbeInit
    /\ DirInit
    /\ AudioInit(TRUE)
    /\ LoopInit("ok")
    /\ DrawInit

InputNext ==
    \/ RequestPauseToggle
    \/ HandleSigint
    \/ CheckStatement

\* A NonBlockingInput whose check() is run statement by statement by the
\* loop while requests and signals arrive from outside it.
InputSpec == InputSpecInit /\ [][InputNext]_vars

Texts == { SubSeq(<<"a", "b", "c", "d">>, 1, n) : n \in 0..MaxText }

\* The coordinates written at: from one left of and above the grid to one
\* right of and below the largest grid.
Columns == (-1)..MaxWidth
Rows == {-1, 0, 1, 2}

\* A call on the frame buffer; each buffer receives at most two.
FrameCall(name, x, y, text) ==
    /\ fb.writes \in {0, 1}
    /\ fb_call' = [x |-> x, y |-> y, text |-> text]
    /\ op' = name
    /\ arg' = 0
    /\ UNCHANGED <<trigger_ret, lyric_ret, lyricVars, probeVars, dirVars, perfVars,
                   audioVars, loopVars, particle, flown, stage, painted, staged>>

\* buffer.set(x, y, "x").
FbSet(x, y) ==
    /\ fb' = set(fb, x, y, "x")
    /\ FrameCall("set", x, y, <<"x">>)

\* buffer.set_text(x, y, text).
FbSetText(x, y, text) ==
    /\ fb' = set_text(fb, x, y, text)
    /\ FrameCall("set_text", x, y, text)

FrameSpecInit ==
    /\ LyricMapInit(<< >>)
    /\ ProbeInit
    /\ DirInit
    /\ AudioInit(TRUE)
    /\ LoopInit("ok")
    /\ \E width \in 1..MaxWidth, height \in Heights : FrameInit(width, height)
    /\ ParticleInit(0, 0, 8)
    /\ SceneInit("fireworks")

FrameNext ==
    \/ \E x \in Columns, y \in Rows : FbSet(x, y)
    \/ \E x \in Columns, y \in Rows, text \in Texts : FbSetText(x, y, text)

\* A frame buffer written at arbitrary coordinates.
FrameSpec == FrameSpecInit /\ [][FrameNext]_vars

\* ------------------------------------------------------------ a particle
\* particle.update(dt).
Update(dt) ==
    /\ flown.updates < MaxUpdates
    /\ particle' = update(particle, dt)
    /\ flown' = [updates |-> flown.updates + 1, dt |-> flown.dt + dt]
    /\ op' = "update"
    /\ arg' = dt
    /\ UNCHANGED <<trigger_ret, lyric_ret, lyricVars, probeVars, dirVars, perfVars,
                   audioVars, loopVars, fb, fb_call, stage, painted, staged>>

ParticleSpecInit ==
    /\ LyricMapInit(<< >>)
    /\ ProbeInit
    /\ DirInit
    /\ AudioInit(TRUE)
    /\ LoopInit("ok")
    /\ FrameInit(1, 1)
    /\ \E gravity \in Gravities, drag \in Drags, max_life \in MaxLives :
          ParticleInit(gravity, drag, max_life)
    /\ SceneInit("fireworks")

ParticleNext == \E dt \in DeltaTimes : Update(dt)

\* A particle updated with arbitrary time steps.
ParticleSpec == ParticleSpecInit /\ [][ParticleNext]_vars

\* --------------------------------------------------------------- a scene
\* A call on the scene.
SceneCallOf(name, t) ==
    /\ op' = name
    /\ arg' = t
    /\ UNCHANGED <<trigger_ret, lyric_ret, lyricVars, probeVars, dirVars, audioVars,
                   loopVars, fb, fb_call, particle, flown>>

\* scene.update(dt, context), as update_scenes makes it. With steps of a
\* quarter of a second current_scale of the heartbeat stays between 0.9 and
\* 1.35; longer steps make it swing ever wider.
SceneUpdate(dt, beat_intensity) ==
    /\ staged.updates < MaxSceneUpdates
    /\ stage.name = "heartbeat" => dt = 1
    /\ stage' = scene_update(stage, dt,
                             SceneContext(80, 24, 0, 0, beat_intensity, FALSE))
    /\ staged' = [updates |-> staged.updates + 1, dt |-> staged.dt + dt]
    /\ SceneCallOf("scene_update", dt)
    /\ UNCHANGED <<painted, perf>>

\* scene.render(buffer, alpha); noise is what random.random() yields when
\* the scene asks for it.
SceneRender(noise) ==
    LET r == render(stage, noise) IN
    /\ stage' = r.s
    /\ painted' = r.painted
    /\ SceneCallOf("scene_render", 0)
    /\ UNCHANGED <<staged, perf>>

\* build_frame renders the scene for a terminal of the given size.
SceneBuildFrame(size, beat_intensity, noise) ==
    LET r == build_frame_scene(stage, size, beat_intensity, noise) IN
    /\ stage' = r.s
    /\ painted' = r.painted
    /\ SceneCallOf("scene_build_frame", 0)
    /\ UNCHANGED <<staged, perf>>

SceneSpecInit ==
    /\ LyricMapInit(<< >>)
    /\ ProbeInit
    /\ DirInit
    /\ AudioInit(TRUE)
    /\ LoopInit("ok")
    /\ FrameInit(1, 1)
    /\ ParticleInit(0, 0, 8)
    /\ \E name \in SceneKinds : SceneInit(name)

SceneNext ==
    \/ \E dt \in DeltaTimes, beat_intensity \in BeatLevels(stage.name) :
          SceneUpdate(dt, beat_intensity)
    \/ \E noise \in Noises : SceneRender(noise)
    \/ \E size \in TerminalSizes, beat_intensity \in BeatLevels(stage.name), noise \in Noises :
          SceneBuildFrame(size, beat_intensity, noise)
    \/ MonitorPerformance(MaxFrameTime)

\* A scene updated and rendered in any order, beside a Director whose
\* performance monitor sees lagging frames.
SceneSpec == SceneSpecInit /\ [][SceneNext]_vars

\* ------------------------------------------------- claims on the cue map
\* The latest entry with a non-empty scene and time <= t, by position; 0 when
\* there is none.
LatestTrigger(es, t) ==
    LET cand == { i \in 1..Len(es) : Truthy(es[i].scene) /\ es[i].time <= t } IN
    IF cand = {} THEN 0 ELSE CHOOSE i \in cand : \A j \in cand : j <= i

\* The last entry in sorted order whose time is <= t, by position; 0 when
\* there is none.
LatestEntry(es, t) ==
    LET cand == { i \in 1..Len(es) : es[i].time <= t } IN
    IF cand = {} THEN 0 ELSE CHOOSE i \in cand : \A j \in cand : j <= i

\* C1: over a non-decreasing sequence of get_scene_trigger queries, every cue
\* time that carries a scene trigger fires at most once.
C1_FiresAtMostOnce ==
    monotone => \A T \in Times : fired[T] <= 1

\* Two different cue times have fired, and the later one was queried again
\* without firing.
C1_Witness ==
    /\ monotone
    /\ op = "get_scene_trigger"
    /\ trigger_ret = None
    /\ arg >= last_triggered_scene_time
    /\ Cardinality({ T \in Times : fired[T] = 1 }) >= 2

\* C2: over a non-decreasing sequence of get_scene_trigger queries, a trigger
\* time has fired exactly once as soon as one query fell at or after it and
\* before the next later trigger time.
C2_FiresExactlyOnceWhenCovered ==
    monotone => \A T \in covered : fired[T] = 1

\* Two trigger times were each covered by a query, the later after the earlier.
C2_Witness ==
    /\ monotone
    /\ Cardinality(covered) >= 2
    /\ op = "get_scene_trigger"
    /\ trigger_ret = None

\* The scenario of the specification: cues intro@0 and starfield@10, queried
\* at 0, 5 and 10.
ScenarioEntries ==
    SortedByTime(<<LyricEntry(10, "hi", "starfield"), LyricEntry(0, "", "intro")>>)

ScenarioReturns ==
    LET q1 == get_scene_trigger(ScenarioEntries, -1, 0)
        q2 == get_scene_trigger(ScenarioEntries, q1.last, 5)
        q3 == get_scene_trigger(ScenarioEntries, q2.last, 10)
    IN  <<q1.ret, q2.ret, q3.ret>>

\* C3: get_scene_trigger(t) takes the latest entry with a non-empty scene and
\* time <= t; when that entry's time is greater than the cursor, the cursor
\* becomes that time and the scene name is returned; otherwise None is
\* returned and the cursor stays. For intro@0, starfield@10 the queries 0, 5,
\* 10 return intro, None, starfield.
C3_TriggerContract ==
    /\ ScenarioReturns = <<"intro", None, "starfield">>
    /\ [][ op' = "get_scene_trigger" =>
             LET i == LatestTrigger(entries, arg') IN
             IF i > 0 /\ entries[i].time > last_triggered_scene_time
             THEN /\ last_triggered_scene_time' = entries[i].time
                  /\ trigger_ret' = entries[i].scene
             ELSE /\ last_triggered_scene_time' = last_triggered_scene_time
                  /\ trigger_ret' = None ]_vars

\* A first cue fired, a query between the cues returned None, and the later
\* cue then fired with another name.
C3_Witness ==
    /\ op = "get_scene_trigger"
    /\ trigger_ret = "starfield"
    /\ Len(entries) = 2
    /\ entries[1].scene = "intro"
    /\ fired[entries[1].time] = 1
    /\ entries[1].time < entries[2].time
    /\ last_triggered_scene_time = entries[2].time

\* C4: get_lyric_at(t) returns the last entry in sorted order whose time is
\* <= t, None when there is no such entry, and changes neither the entries
\* nor the scene-trigger cursor.
C4_LyricAt ==
    [][ op' = "get_lyric_at" =>
          /\ lyric_ret' = LatestEntry(entries, arg')
          /\ entries' = entries
          /\ last_triggered_scene_time' = last_triggered_scene_time ]_vars

\* Two entries share the time asked for, and the later one in sorted order is
\* returned.
C4_Witness ==
    /\ op = "get_lyric_at"
    /\ lyric_ret = 2
    /\ entries[1].time = entries[2].time
    /\ entries[2].time = arg

\* C5: for t1 < t2, get_lyric_at(t2) returns no entry later than t2, returns
\* an entry when get_lyric_at(t1) does, and that entry is the same as or
\* later than the one returned for t1.
C5_LyricMonotone ==
    op = "get_lyric_at" =>
        /\ lyric_ret > 0 => entries[lyric_ret].time <= arg
        /\ \A t1 \in Times :
              t1 < arg =>
                 LET r1 == get_lyric_at(entries, t1) IN
                 r1 > 0 => /\ lyric_ret > 0
                           /\ lyric_ret >= r1
                           /\ entries[lyric_ret].time >= entries[r1].time

\* A later query returned a later entry than an earlier time does.
C5_Witness ==
    /\ op = "get_lyric_at"
    /\ lyric_ret = 2
    /\ entries[1].time < entries[2].time
    /\ \E t1 \in Times : t1 < arg /\ get_lyric_at(entries, t1) = 1

\* ------------------------------------------------ claims on the Director
\* transition_alpha as a number: at most 1.0, and at least 1.0.
AlphaInUnitInterval(n) == n >= 0 /\ n < StepsToOne
AlphaAtLeastOne(n) == n >= StepsToOne

\* The step constructed a scene, i.e. completed a transition.
Completes == director'.made = director.made + 1

\* Position of the first call of a method on a scene in a call log, 0 if none.
CallAt(log, method, scene) ==
    LET at == { i \in 1..Len(log) : log[i].op = method /\ log[i].id = scene.id } IN
    IF at = {} THEN 0 ELSE CHOOSE i \in at : \A j \in at : i <= j

\* C6: between Director calls transition_alpha is within [0, 1], and no call
\* ends with a transition pending at alpha >= 1.0: the update that reaches 1.0
\* completes the transition itself.
C6_AlphaInRange ==
    /\ AlphaInUnitInterval(director.transition_alpha)
    /\ ~(director.next_scene_name # None /\ AlphaAtLeastOne(director.transition_alpha))

\* An update_scenes call brought alpha to 1.0 and completed the transition.
C6_Witness ==
    /\ op = "update_scenes"
    /\ director.next_scene_name = None
    /\ director.transition_alpha = 0
    /\ CallAt(director.calls, "enter", director.current_scene) > 0

\* C7: a completed transition with an outgoing scene calls the outgoing scene's
\* exit() before the incoming scene is made current and before its enter().
C7_ExitBeforeEnter ==
    [][ (Completes /\ director.current_scene # NoInstance) =>
          LET log == director'.calls
              x == CallAt(log, "exit", director.current_scene)
              c == CallAt(log, "__init__", director'.current_scene)
              e == CallAt(log, "enter", director'.current_scene)
          IN  /\ director'.current_scene.id # director.current_scene.id
              /\ 0 < x /\ x < c /\ c < e ]_vars

\* A transition completed over an outgoing scene.
C7_Witness ==
    /\ op = "update_scenes"
    /\ director.made = 2
    /\ CallAt(director.calls, "enter", director.current_scene) > 0
    /\ \E i \in 1..Len(director.calls) : director.calls[i].op = "exit"

\* C8 as stated: a request for B made while a transition to A is in flight
\* leaves that transition to complete toward A.
C8_CompletesTowardInFlight ==
    [][ (Completes /\ overridden # None) =>
          director'.current_scene.name = overridden ]_vars

\* C8, amended: a request for B made while a transition to another target A is
\* in flight replaces A as the pending target and restarts alpha at 0 without
\* constructing anything; the next completion constructs and enters the
\* pending target of that moment, which is not A.
C8_LatestRequestWins ==
    [][ /\ (overridden' # None /\ overridden' # overridden) =>
              /\ overridden' = director.next_scene_name
              /\ director'.next_scene_name \in Registered \ {overridden'}
              /\ director'.transition_alpha = 0
              /\ director'.current_scene = director.current_scene
              /\ director'.made = director.made
        /\ (Completes /\ overridden # None) =>
              /\ director'.current_scene.name = director.next_scene_name
              /\ director'.current_scene.name # overridden
              /\ CallAt(director'.calls, "enter", director'.current_scene) > 0 ]_vars

\* A transition that replaced another one in flight has completed.
C8_Witness ==
    /\ op = "update_scenes"
    /\ overridden # None
    /\ director.next_scene_name = None
    /\ CallAt(director.calls, "enter", director.current_scene) > 0
    /\ director.current_scene.name # overridden

\* C9: a frame rendered while a transition is pending paints the current scene
\* at 1 - transition_alpha and the incoming scene at transition_alpha; a frame
\* rendered with no transition pending paints only the current scene, at 1.0.
C9_BlendedRender ==
    (op \in {"render_scenes", "build_frame"} /\ director.current_scene # NoInstance) =>
        IF director.next_scene_name # None
        THEN /\ director.transitioning_scene # NoInstance
             /\ director.calls =
                  << SceneCall("render", director.current_scene,
                               OldAlpha(director.transition_alpha)),
                     SceneCall("render", director.transitioning_scene,
                               NewAlpha(director.transition_alpha)) >>
        ELSE director.calls = << SceneCall("render", director.current_scene, FullAlpha) >>

\* C10: while a transition is pending over a current scene the Director holds
\* one incoming scene instance besides the current one, and an update_scenes
\* call updates both once; with no transition pending it holds no incoming
\* instance.
C10_IncomingHeld ==
    /\ (director.next_scene_name # None /\ director.current_scene # NoInstance) =>
          /\ director.transitioning_scene # NoInstance
          /\ director.transitioning_scene.id # director.current_scene.id
          /\ op = "update_scenes" =>
                director.calls =
                  << SceneCall("update", director.current_scene, NoAlpha),
                     SceneCall("update", director.transitioning_scene, NoAlpha) >>
    /\ director.next_scene_name = None => director.transitioning_scene = NoInstance

\* C11: transition_to with a name that is not registered raises the
\* unknown-scene error and leaves the Director as it was: the same current
\* scene instance, the same pending name and incoming instance, the same
\* transition_alpha, also in the middle of a transition.
C11_UnknownSceneRejected ==
    [][ \A name \in SceneNames \ Registered :
          TransitionTo(name) =>
            /\ director'.raised = "ValueError"
            /\ director'.current_scene = director.current_scene
            /\ director'.next_scene_name = director.next_scene_name
            /\ director'.transitioning_scene = director.transitioning_scene
            /\ director'.transition_alpha = director.transition_alpha
            /\ director'.made = director.made ]_vars

C11_Witness ==
    /\ op = "transition_to"
    /\ director.raised = "ValueError"
    /\ director.current_scene # NoInstance
    /\ director.next_scene_name # None
    /\ director.transition_alpha > 0

\* C14: from a particle budget of 500, one monitor_performance call with a
\* frame time of twice FRAME_TIME leaves 375; over any sequence of calls the
\* budget never falls below 50.
C14_BudgetStepAndFloor ==
    /\ [](perf.particle_budget >= 50)
    /\ [][ (MonitorPerformance(2 * FRAME_TIME) /\ perf.particle_budget = 500) =>
              perf'.particle_budget = 375 ]_vars

C14_Witness ==
    /\ op = "monitor_performance"
    /\ arg > LagThreshold
    /\ perf.particle_budget = MIN_PARTICLE_BUDGET

\* C16: after a successful start(), whatever pause() and resume() calls were
\* made, get_time() is the clock time since start() less the time spent
\* between a pause() and the resume() that follows it.
C16_ElapsedLessPaused ==
    am.is_playing =>
        get_time(am, wall) = wall - am.start_time - paused_span.total

\* ----------------------------------------------- claims on the main loop
\* A step that is one pass of the main loop.
IsTick == loop.pc = "ticking" /\ op' = "tick"

\* C12: a pass of the main loop made while paused updates no scene, does not
\* advance transition_alpha and completes no transition.
C12_PausedTickHoldsScenes ==
    [][ (IsTick /\ loop'.is_paused) =>
          /\ loop'.updates = 0
          /\ director'.transition_alpha <= director.transition_alpha
          /\ director'.current_scene = director.current_scene
          /\ director'.made = director.made ]_vars

C12_Witness ==
    /\ op = "tick"
    /\ loop.pc = "ticking"
    /\ loop.is_paused
    /\ director.next_scene_name # None
    /\ director.transition_alpha > 0

\* C13: from one paused pass of the main loop to the next the playback time
\* fed to the Director is the same, with and without an audio manager, so
\* that no cue fires, no transition is requested and the song does not end.
C13_PausedTimeFrozen ==
    [][ (IsTick /\ loop.is_paused /\ loop'.is_paused) =>
          /\ loop'.current_time = loop.current_time
          /\ last_triggered_scene_time' = last_triggered_scene_time
          /\ director'.next_scene_name = director.next_scene_name
          /\ ~loop'.experience_complete ]_vars

\* C15: a pass of the main loop that reaches its frame pacing hands the
\* duration it measured to monitor_performance.
C15_TickFeedsGovernor ==
    [][ \A frame_time \in TickFrameTimes :
          ( /\ loop'.pc = "ticking"
            /\ \E toggle_pause \in BOOLEAN, elapsed \in {0, 1}, fault \in Faults :
                    Tick(toggle_pause, elapsed, frame_time, fault) )
          => perf' = monitor_performance(perf, frame_time) ]_vars

\* C17: audio_manager.start() raises nothing, and when playback did not
\* start the main loop runs without the audio manager.
C17_StartNeverRaises ==
    /\ am.raised = None
    /\ (loop.pc = "ticking" /\ ~am.is_playing) => ~loop.has_audio

\* C18: with no cue file load_assets returns a cue map without entries and the
\* run goes on; with a cue file that cannot be parsed it returns no cue map
\* and raises nothing.
C18_LoadAssetsDefaults ==
    loop.pc # "main" =>
        /\ loop.lyrics_file = "missing" =>
              /\ loop.lyric_map # None
              /\ entries = << >>
              /\ loop.raised = None
        /\ loop.lyrics_file = "malformed" =>
              /\ loop.lyric_map = None
              /\ loop.raised = None

\* C19: main() ends by returning an exit code, never with an exception: 1
\* when no cue map was loaded, 0 after the main loop has returned.
C19_MainReturnsExitCode ==
    /\ loop.pc # "crashed"
    /\ loop.pc = "exited" =>
          loop.exit_code = IF loop.lyric_map = None THEN 1 ELSE 0

\* C20: an exception raised in a pass of the main loop is caught there: the
\* Live display is stopped, the audio player is stopped, nothing leaves
\* run_main_loop and it returns false.
C20_TickExceptionCaught ==
    loop.caught # None =>
        /\ loop.pc \in {"returned", "exited"}
        /\ loop.live = "stopped"
        /\ ~am.process
        /\ loop.ret = "False"
        /\ loop.raised = None

C20_Witness ==
    /\ loop.caught = "Exception"
    /\ loop.pc = "returned"
    /\ am.start_time > 0
    /\ ~am.has_error

\* ------------------------------------ claims on the frame buffer and particles
\* C22: set and set_text raise nothing for any coordinates; the cells of the
\* grid that the written characters fall on take those characters, every
\* other cell keeps its value, and the dimensions of the grid stay as they are.
C22_WritesClipped ==
    [][ op' \in {"set", "set_text"} /\ fb'.writes # fb.writes =>
          /\ fb'.raised = None
          /\ fb'.width = fb.width
          /\ fb'.height = fb.height
          /\ DOMAIN fb'.buffer = DOMAIN fb.buffer
          /\ \A p \in DOMAIN fb.buffer :
               fb'.buffer[p] =
                 IF p[2] = fb_call'.y /\ (p[1] - fb_call'.x) + 1 \in 1..Len(fb_call'.text)
                 THEN <<fb_call'.text[(p[1] - fb_call'.x) + 1], "">>
                 ELSE fb.buffer[p] ]_vars

C22_Witness ==
    /\ op = "set_text"
    /\ Len(fb_call.text) = 2
    /\ fb_call.x = fb.width - 1
    /\ fb_call.y = 0
    /\ fb.width = 2
    /\ fb.buffer[<<0, 0>>] = <<"x", "">>
    /\ fb.buffer[<<1, 0>>] = <<"a", "">>

C24_EnterOnceExitOnce ==
    /\ Len(life) = director.made
    /\ \A id \in 1..Len(life) :
          /\ life[id].enters = 1
          /\ ~life[id].stray
          /\ life[id].exits = IF id = director.current_scene.id THEN 0 ELSE 1

\* A scene has been replaced and its successor rendered.
C24_Witness ==
    /\ Len(life) = 2
    /\ life[1].exits = 1
    /\ director.current_scene.id = 2
    /\ op = "render_scenes"
    /\ director.calls # << >>

\* Updates of one FRAME_TIME whose dt adds up to FADE_DURATION.
FadeFrames == TARGET_FPS \div 2

\* C25: an update_scenes call made while a transition is pending completes it
\* when the dt summed since the request reaches 0.5 s (at a dt of 1/30 s: in
\* the 15th update), leaving no pending name and alpha 0; an update before
\* that adds its dt / 0.5 to alpha and leaves the transition pending.
C25_CompletesAtHalfSecond ==
    [][ \A dt \in Dts :
          (UpdateScenes(dt) /\ director.next_scene_name # None) =>
             IF director.transition_alpha + dt >= FadeFrames
             THEN /\ director'.next_scene_name = None
                  /\ director'.transition_alpha = 0
             ELSE /\ director'.next_scene_name = director.next_scene_name
                  /\ director'.transition_alpha = director.transition_alpha + dt ]_vars

\* C26: check_scene_triggers(t) requests a transition to the name the cue map
\* returns for t when that name is not the current scene's name, and
\* otherwise leaves the pending name, transition_alpha and the current scene
\* as they were.
C26_TriggerRequestsOtherScene ==
    [][ \A t \in Times :
          CheckSceneTriggers(t) =>
             LET name == get_scene_trigger(entries, last_triggered_scene_time, t).ret IN
             /\ director'.current_scene = director.current_scene
             /\ IF name # None /\ name # director.current_scene.name
                THEN /\ director'.next_scene_name = name
                     /\ director'.transition_alpha = 0
                ELSE /\ director'.next_scene_name = director.next_scene_name
                     /\ director'.transition_alpha = director.transition_alpha ]_vars

\* The cue map returned the current scene's name while a transition to
\* another scene was under way, and that transition is still under way.
C26_Witness ==
    /\ op = "check_scene_triggers"
    /\ trigger_ret # None
    /\ trigger_ret = director.current_scene.name
    /\ director.next_scene_name # None
    /\ director.transition_alpha > 0


\* C21: the quit flag stays set once set; a pass that finds it set makes no
\* trigger check, scene update or render, leaves the loop, and the display
\* and the audio are stopped; a pass that found it unset runs to its end,
\* leaving the loop only at the end of the song or with an exception.
C21_QuitAtTickBoundary ==
    [][ /\ loop.quit_requested => loop'.quit_requested
        /\ (IsTick /\ loop.quit_requested) =>
              /\ UNCHANGED <<director, last_triggered_scene_time, life>>
              /\ loop'.frame_calls = << >>
              /\ loop'.updates = 0
              /\ loop'.pc = "returned"
              /\ loop'.ret = "False"
              /\ loop'.live = "stopped"
              /\ ~am'.process
              /\ ~am'.is_playing
        /\ (IsTick /\ ~loop.quit_requested /\ loop'.pc = "returned") =>
              loop'.experience_complete \/ loop'.caught # None ]_vars

\* SIGINT arrived in the middle of a transition, with the audio playing, and
\* the next pass left the loop.
C21_Witness ==
    /\ op = "tick"
    /\ loop.quit_requested
    /\ loop.pc = "returned"
    /\ loop.live = "stopped"
    /\ loop.has_audio
    /\ ~loop.experience_complete
    /\ loop.caught = None
    /\ director.next_scene_name # None
    /\ director.transition_alpha > 0

\* The scene name of the cue at time 0, None when there is none.
CueAtZero(es) ==
    LET i == LatestTrigger(es, 0) IN IF i = 0 THEN None ELSE es[i].scene

\* C27: a Director that has a current scene keeps having one; run_main_loop
\* enters the scene of the cue at time 0, or "intro" when there is none,
\* before its loop, and every pass of the loop starts with a current scene.
C27_CurrentSceneOnceSet ==
    [][ /\ director.current_scene # NoInstance => director'.current_scene # NoInstance
        /\ (op' = "run_main_loop" /\ loop'.pc = "ticking") =>
              /\ director'.current_scene # NoInstance
              /\ director'.current_scene.name =
                   IF CueAtZero(entries) = None THEN "intro" ELSE CueAtZero(entries)
              /\ life'[director'.current_scene.id].enters = 1
        /\ IsTick => director.current_scene # NoInstance ]_vars

\* A pass of the loop has run on the scene of the cue at time 0.
C27_Witness ==
    /\ op = "tick"
    /\ loop.pc = "ticking"
    /\ director.made = 1
    /\ director.current_scene.name = "starfield"
    /\ CueAtZero(entries) = "starfield"

\* The scene name of the cue that fired last: the trigger the cursor stands on.
LastFiredScene ==
    LET i == LatestTrigger(entries, last_triggered_scene_time) IN
    IF i = 0 THEN None ELSE entries[i].scene

\* C28: when no transition is pending and some cue has fired, the current
\* scene is the scene named by the cue that fired last.
C28_CurrentIsLastFiredCue ==
    (director.next_scene_name = None /\ last_triggered_scene_time >= 0) =>
        director.current_scene.name = LastFiredScene

\* C29: the scene_time of a pass's SceneContext is the playback time elapsed
\* since the current scene was entered: not negative and not more than the
\* song time.
C29_SceneTimeSinceEntered ==
    (op = "tick" /\ loop.pc = "ticking") =>
        /\ loop.scene_time >= 0
        /\ loop.scene_time <= loop.current_time

\* C30: a pass that runs to its end reads the time source, checks the scene
\* triggers at that time, then updates the current scene once (not at all
\* when paused), then renders once, the scene that is current after the
\* update, then sleeps what is left of FRAME_TIME: a transition the trigger
\* check requested has had its first update when the pass ends.
C30_OneFrameInOrder ==
    [][ \A pass \in PassTimes :
          ( /\ loop'.pc = "ticking"
            /\ \E toggle_pause \in BOOLEAN : Tick(toggle_pause, pass[1], pass[2], None) )
          =>
          LET t == loop'.current_time
              r == get_scene_trigger(entries, last_triggered_scene_time, t)
              calls == loop'.frame_calls
              n == Len(calls)
          IN /\ t = IF loop.has_audio THEN get_time(am', wall) ELSE wall - loop.start_time
             /\ last_triggered_scene_time' = r.last
             /\ (r.ret # None /\ r.ret # director.current_scene.name) =>
                   /\ director'.next_scene_name = r.ret
                   /\ director'.transition_alpha = IF loop'.is_paused THEN 0 ELSE 1
             /\ n >= 1
             /\ calls[n].op = "render"
             /\ calls[n].id = director'.current_scene.id
             /\ \A i \in 1..(n - 1) : calls[i].op # "render"
             /\ IF loop'.is_paused
                THEN \A i \in 1..n : calls[i].op # "update"
                ELSE /\ calls[1] = SceneCall("update", director.current_scene, NoAlpha)
                     /\ \A i \in 2..n : calls[i].op # "update"
             /\ loop'.slept = Max(0, FRAME_TIME - pass[2]) ]_vars

\* A pass in which a cue fired has ended with the transition one update on,
\* the scene rendered, and a sleep.
C30_Witness ==
    /\ op = "tick"
    /\ loop.pc = "ticking"
    /\ ~loop.is_paused
    /\ director.next_scene_name # None
    /\ director.transition_alpha = 1
    /\ Len(loop.frame_calls) = 2
    /\ loop.slept > 0


\* C32: over get_scene_trigger queries made in any order the cursor
\* _last_triggered_scene_time never decreases, no call other than a
\* get_scene_trigger that fires changes it, and a query at a time earlier than
\* the cursor returns None and leaves it alone.
C32_CursorNeverRewinds ==
    [][ /\ last_triggered_scene_time' >= last_triggered_scene_time
        /\ last_triggered_scene_time' # last_triggered_scene_time
              => op' = "get_scene_trigger" /\ trigger_ret' # None
        /\ op' = "get_scene_trigger" /\ arg' < last_triggered_scene_time
              => /\ trigger_ret' = None
                 /\ last_triggered_scene_time' = last_triggered_scene_time ]_vars

\* A query went back before the cue that fired last, to a time at which an
\* earlier trigger stands, and returned None.
C32_Witness ==
    /\ op = "get_scene_trigger"
    /\ arg < last_triggered_scene_time
    /\ trigger_ret = None
    /\ ~monotone
    /\ \E i \in 1..Len(entries) : Truthy(entries[i].scene) /\ entries[i].time <= arg


\* C33: after every Director call, a pending scene name of None goes with
\* transition_alpha = 0; transition_alpha grows only in an update_scenes call
\* made while a name is pending, and it is 0 after an accepted transition
\* request and after the call that completes a transition.
C33_AlphaZeroUnlessPending ==
    [][ /\ director'.next_scene_name = None => director'.transition_alpha = 0
        /\ director'.transition_alpha > director.transition_alpha
              => director.next_scene_name # None /\ op' = "update_scenes"
        /\ op' = "transition_to" /\ director'.raised = None
              => director'.transition_alpha = 0
        /\ director.next_scene_name # None /\ director'.next_scene_name = None
              => director'.transition_alpha = 0 ]_vars

\* A second transition has been completed by an update_scenes call that found
\* alpha part of the way, and nothing is pending.
C33_Witness ==
    /\ op = "update_scenes"
    /\ director.made = 2
    /\ director.next_scene_name = None
    /\ director.transition_alpha = 0
    /\ CallAt(director.calls, "exit", NewScene(1, "intro", None)) > 0


\* C34: a monitor_performance call changes the particle budget only when the
\* frame time is strictly greater than 1.5 * FRAME_TIME, never raises it, and
\* leaves the current scene, the pending scene name and transition_alpha as
\* they were.
C34_BudgetOnlyFallsOnLag ==
    [][ op' = "monitor_performance" =>
          /\ perf'.particle_budget # perf.particle_budget => arg' > LagThreshold
          /\ perf'.particle_budget <= perf.particle_budget
          /\ director'.current_scene = director.current_scene
          /\ director'.next_scene_name = director.next_scene_name
          /\ director'.transition_alpha = director.transition_alpha ]_vars

\* The monitor of a Director in mid-transition was called with a frame time of
\* exactly 1.5 * FRAME_TIME after one lagging frame had lowered the budget.
C34_Witness ==
    /\ op = "monitor_performance"
    /\ arg = LagThreshold
    /\ perf.last_frame_time = LagThreshold
    /\ perf.particle_budget = 375
    /\ director.next_scene_name = "starfield"
    /\ director.transition_alpha = 1
    /\ director.current_scene.name = "intro"


\* The song is over for a pass that reads song time t: t has reached the
\* duration, and the duration plus the grace period while "finale" is shown.
SongOver(t) ==
    /\ t >= loop.duration
    /\ get_current_scene_name(director) = "finale" => t >= loop.duration + FinaleGrace

\* The cue a pass at song time t fires, None when it fires none.
FiresAt(t) == get_scene_trigger(entries, last_triggered_scene_time, t).ret

\* C31: when a pass of the loop fires a cue whose scene name is not
\* registered, the ValueError of transition_to leaves check_scene_triggers in
\* that pass with the current scene, the pending name and transition_alpha as
\* they were; the pass makes no scene call, the loop's handler catches the
\* error, run_main_loop returns False, and no pass follows.
C31_UnknownCueEndsLoop ==
    [][ /\ ( /\ IsTick
             /\ ~loop.quit_requested
             /\ ~SongOver(arg')
             /\ Truthy(FiresAt(arg'))
             /\ FiresAt(arg') \notin Registered )
          => /\ director'.current_scene = director.current_scene
             /\ director'.next_scene_name = director.next_scene_name
             /\ director'.transition_alpha = director.transition_alpha
             /\ director'.raised = "ValueError"
             /\ loop'.caught = "ValueError"
             /\ loop'.frame_calls = << >>
             /\ loop'.pc = "returned"
             /\ loop'.ret = "False"
        /\ loop.caught # None => op' # "tick" ]_vars

\* The cue of an unregistered scene fired while a transition to "starfield"
\* was part of the way, and the loop ended with it still pending.
C31_Witness ==
    /\ op = "tick"
    /\ loop.pc = "returned"
    /\ loop.caught = "ValueError"
    /\ loop.ret = "False"
    /\ director.raised = "ValueError"
    /\ director.next_scene_name = "starfield"
    /\ director.transition_alpha > 0
    /\ \E i \in 1..Len(entries) :
          entries[i].scene = "bogus" /\ entries[i].time = last_triggered_scene_time

\* C38: once start() has launched the player (am.process), run_main_loop is
\* not left, by return or by exception, without stop() having ended it.
C38_PlayerStoppedOnEveryExit ==
    loop.pc \in {"returned", "exited", "crashed"} => ~am.process


\* The song time the next pass reads when check() hands it toggle_pause.
TimeRead(toggle_pause) ==
    LET is_paused == IF toggle_pause THEN ~loop.is_paused ELSE loop.is_paused
        am1 == IF ~(toggle_pause /\ loop.has_audio) THEN am
               ELSE IF is_paused THEN pause(am, wall) ELSE resume(am, wall)
    IN IF loop.has_audio THEN get_time(am1, wall) ELSE wall - loop.start_time

\* The loop is running and the song is over for its next pass.
SongOverNow ==
    /\ loop.pc = "ticking"
    /\ \A toggle_pause \in BOOLEAN : SongOver(TimeRead(toggle_pause))

\* C37: a pass that is not a quit and reads a song time at or past the
\* duration (the duration plus 5 s while "finale" is the current scene) ends
\* the loop with experience_complete = True, makes no trigger check, scene
\* update or render, and run_main_loop returns True; a pass that reads an
\* earlier time does not complete the experience. Once the song time has grown
\* that far, the loop terminates.
C37_LoopEndsWhenSongOver ==
    /\ [][ IsTick /\ ~loop.quit_requested =>
             /\ arg' \in { TimeRead(toggle_pause) : toggle_pause \in BOOLEAN }
             /\ SongOver(arg') =>
                   /\ loop'.pc = "returned"
                   /\ loop'.experience_complete
                   /\ loop'.ret = "True"
                   /\ loop'.frame_calls = << >>
                   /\ loop'.updates = 0
                   /\ UNCHANGED <<last_triggered_scene_time, dirVars>>
             /\ loop'.experience_complete => SongOver(arg') ]_vars
    /\ SongOverNow ~> loop.pc # "ticking"

\* The loop ran on while "finale" was shown past the end of the song, and
\* ended at the pass that read the duration plus the grace period.
C37_Witness ==
    /\ op = "tick"
    /\ loop.pc = "returned"
    /\ loop.experience_complete
    /\ loop.ret = "True"
    /\ get_current_scene_name(director) = "finale"
    /\ arg = loop.duration + FinaleGrace
    /\ loop.current_time = arg - 1


\* C39: no request_pause_toggle() is lost and none toggles pause twice: the
\* check() calls have returned toggle_pause = True at most once per request,
\* and a request that no check() has answered yet is still held, by the flag
\* or by a check() in progress that has read it.
C39_NoRequestLostOrDoubled ==
    /\ asked.toggles <= asked.requests
    /\ asked.owed =>
          \/ input.pause_requested
          \/ input.pc \in {"line71", "line73"} /\ input.pause_read


\* C35: after every update of a fireworks or finale scene the particles it
\* holds number at most the Director's particle budget, also once
\* monitor_performance has lowered the budget.
C35_ParticlesWithinBudget ==
    stage.name \in {"fireworks", "finale"} /\ op = "scene_update"
        => get_particle_count(stage) <= perf.particle_budget

\* C36: rendering changes no field of the scene, under render(buffer, alpha)
\* and under build_frame alike, and two renders in a row paint the same cells.
C36_RenderLeavesSceneAlone ==
    [][ /\ op' \in {"scene_render", "scene_build_frame"} => stage' = stage
        /\ op = "scene_render" /\ op' = "scene_render" => painted' = painted ]_vars

\* C40: after every update of a fireworks or finale scene every particle in
\* its list has life > 0.
C40_NoDeadParticleKept ==
    stage.name \in {"fireworks", "finale"} /\ op = "scene_update"
        => \A i \in 1..Len(stage.particles) : stage.particles[i].p.life > 0

\* The first burst has lived its 2.0 s and is gone from the list, which holds
\* later bursts.
C40_Witness ==
    /\ stage.name \in {"fireworks", "finale"}
    /\ op = "scene_update"
    /\ staged.dt >= LifeOne
    /\ Len(stage.particles) > 0
    /\ \A i \in 1..Len(stage.particles) : stage.particles[i].p.life > LifeOne - staged.dt

====
